---- MODULE Spec2Model ----
(***************************************************************************)
(* Model of the schema-decision engine and refinement protocol of          *)
(* backend/app/services/schema_engine.py.                                   *)
(*                                                                         *)
(* Strings of the program are sequences of one-character strings, so that  *)
(* lower(), strip(), split(), substring tests, suffix rewriting and the    *)
(* regular expressions of the source act on characters as they do in the   *)
(* program.  JSON values are records with a kind tag (see Str, Num, ...).   *)
(* The keys of a result mapping (schema, decisions, warnings, ...) are      *)
(* plain strings; every other string is a character sequence.               *)
(***************************************************************************)
EXTENDS Integers, Sequences, FiniteSets, TLC

VARIABLES
    pc,            \* position of the request being served
    op,            \* "none", "generate" or "refine"
    base_result,   \* the stored result a refinement starts from
    text,          \* input_text / refinement_text of the request
    workload_type, \* workload_type of the request
    calls,         \* prompts sent to the generative service by this request
    responses,     \* what the generative service answered, in order
    out,           \* the mapping returned to the caller
    path,          \* "none", "llm" or "fallback": the return statement taken
    raised,        \* TRUE when an exception left the operation
    fn,            \* pure-function harness: the function applied
    arg,           \* pure-function harness: its arguments
    ret,           \* pure-function harness: its result
    schemaHistory, \* the documents of db.schemaHistory, in the order inserted
    handlers,      \* create_schema handlers waiting at update_one
    agents,        \* every SchemaDesignAgent constructed, in the order constructed
    _user_agents,  \* agent_engine._user_agents: user id -> position in agents
    served         \* the users of the POST /agent/chat requests answered, in order

\* the state of the routers and of the agents
app_vars == <<schemaHistory, handlers, agents, _user_agents, served>>

vars == <<pc, op, base_result, text, workload_type, calls, responses, out, path, raised, fn, arg, ret,
          schemaHistory, handlers, agents, _user_agents, served>>

\* With([v \in {x} |-> e]) is e for v the value of x, which is computed once
With(f) == CHOOSE r \in {g[CHOOSE v \in DOMAIN g : TRUE] : g \in {f}} : TRUE

---------------------------------------------------------------------------
(* Characters and the str methods the source uses.                         *)

lower_alpha == <<"a", "b", "c", "d", "e", "f", "g", "h", "i", "j", "k", "l", "m", "n", "o", "p", "q", "r", "s", "t", "u", "v", "w", "x", "y", "z">>
upper_alpha == <<"A", "B", "C", "D", "E", "F", "G", "H", "I", "J", "K", "L", "M", "N", "O", "P", "Q", "R", "S", "T", "U", "V", "W", "X", "Y", "Z">>
digits == <<"0", "1", "2", "3", "4", "5", "6", "7", "8", "9">>
\* the characters used, in code-point order ("->" stands for U+2192)
code_points == <<" ", "!", "\"", "'", "(", ")", "+", ",", "-", ".", "0", "1", "2", "3", "4", "5", "6", "7", "8", "9", ":", ">", "?", "A", "B", "C", "D", "E", "F", "G", "H", "I", "J", "K", "L", "M", "N", "O", "P", "Q", "R", "S", "T", "U", "V", "W", "X", "Y", "Z", "[", "]", "_", "a", "b", "c", "d", "e", "f", "g", "h", "i", "j", "k", "l", "m", "n", "o", "p", "q", "r", "s", "t", "u", "v", "w", "x", "y", "z", "{", "}", "->">>

InSeq(q, c) == \E i \in 1..Len(q) : q[i] = c
IndexOf(q, c) == CHOOSE i \in 1..Len(q) : q[i] = c
ord(c) == IndexOf(code_points, c)

is_upper(c) == InSeq(upper_alpha, c)
is_lower(c) == InSeq(lower_alpha, c)
is_alpha(c) == is_upper(c) \/ is_lower(c)
is_space(c) == c = " "
\* \w of the re module
is_word(c) == is_alpha(c) \/ InSeq(digits, c) \/ c = "_"

lower_ch(c) == IF is_upper(c) THEN lower_alpha[IndexOf(upper_alpha, c)] ELSE c
upper_ch(c) == IF is_lower(c) THEN upper_alpha[IndexOf(lower_alpha, c)] ELSE c

str_lower(s) == [i \in 1..Len(s) |-> lower_ch(s[i])]
str_capitalize(s) == [i \in 1..Len(s) |-> IF i = 1 THEN upper_ch(s[i]) ELSE lower_ch(s[i])]

str_strip(s) ==
    IF \A i \in 1..Len(s) : is_space(s[i]) THEN <<>>
    ELSE LET a == CHOOSE i \in 1..Len(s) : ~is_space(s[i]) /\ \A j \in 1..(i-1) : is_space(s[j])
             b == CHOOSE i \in 1..Len(s) : ~is_space(s[i]) /\ \A j \in (i+1)..Len(s) : is_space(s[j])
         IN  SubSeq(s, a, b)

MatchAt(s, p, lit) == p >= 1 /\ p + Len(lit) - 1 <= Len(s) /\ SubSeq(s, p, p + Len(lit) - 1) = lit
\* sub in s
str_in(sub, s) == \E p \in 1..(Len(s) + 1) : MatchAt(s, p, sub)
str_startswith(s, pre) == MatchAt(s, 1, pre)
str_endswith(s, suf) == Len(suf) <= Len(s) /\ MatchAt(s, Len(s) - Len(suf) + 1, suf)

\* s.split(): the maximal runs of non-space characters
RECURSIVE split_from(_, _)
split_from(s, p) ==
    IF \A i \in p..Len(s) : is_space(s[i]) THEN <<>>
    ELSE LET a == CHOOSE i \in p..Len(s) : ~is_space(s[i]) /\ \A j \in p..(i-1) : is_space(s[j])
             b == CHOOSE i \in a..Len(s) : (\A j \in a..i : ~is_space(s[j]))
                                            /\ (i = Len(s) \/ is_space(s[i+1]))
         IN  <<SubSeq(s, a, b)>> \o split_from(s, b + 1)
str_split(s) == split_from(s, 1)

\* sep.join(parts)
RECURSIVE str_join(_, _)
str_join(sep, parts) ==
    IF Len(parts) = 0 THEN <<>>
    ELSE IF Len(parts) = 1 THEN parts[1]
    ELSE parts[1] \o sep \o str_join(sep, Tail(parts))

\* a < b on str (code-point order)
RECURSIVE str_less(_, _)
str_less(a, b) ==
    IF Len(a) = 0 THEN Len(b) > 0
    ELSE IF Len(b) = 0 THEN FALSE
    ELSE IF a[1] = b[1] THEN str_less(Tail(a), Tail(b))
    ELSE ord(a[1]) < ord(b[1])

\* sorted(S) for a set S of strings
RECURSIVE sorted(_)
sorted(S) ==
    IF S = {} THEN <<>>
    ELSE LET m == CHOOSE x \in S : \A y \in S \ {x} : str_less(x, y)
         IN  <<m>> \o sorted(S \ {m})

\* str(n) for n >= 0
RECURSIVE itoa(_)
itoa(n) == IF n < 10 THEN <<digits[n + 1]>> ELSE itoa(n \div 10) \o <<digits[(n % 10) + 1]>>

Range(q) == {q[i] : i \in 1..Len(q)}

---------------------------------------------------------------------------
(* String literals of the source.                                          *)

Lit_relationships == <<"r", "e", "l", "a", "t", "i", "o", "n", "s", "h", "i", "p", "s">>
Lit_ies == <<"i", "e", "s">>
Lit_ses == <<"s", "e", "s">>
Lit_ss == <<"s", "s">>
Lit_s == <<"s">>
Lit_y == <<"y">>
Lit_es == <<"e", "s">>
Lit_a == <<"a">>
Lit_an == <<"a", "n">>
Lit_the == <<"t", "h", "e">>
Lit_app == <<"a", "p", "p">>
Lit_apps == <<"a", "p", "p", "s">>
Lit_application == <<"a", "p", "p", "l", "i", "c", "a", "t", "i", "o", "n">>
Lit_system == <<"s", "y", "s", "t", "e", "m">>
Lit_platform == <<"p", "l", "a", "t", "f", "o", "r", "m">>
Lit_string == <<"s", "t", "r", "i", "n", "g">>
Lit_text == <<"t", "e", "x", "t">>
Lit_str == <<"s", "t", "r">>
Lit_number == <<"n", "u", "m", "b", "e", "r">>
Lit_int == <<"i", "n", "t">>
Lit_integer == <<"i", "n", "t", "e", "g", "e", "r">>
Lit_float == <<"f", "l", "o", "a", "t">>
Lit_double == <<"d", "o", "u", "b", "l", "e">>
Lit_date == <<"d", "a", "t", "e">>
Lit_datetime == <<"d", "a", "t", "e", "t", "i", "m", "e">>
Lit_bool == <<"b", "o", "o", "l">>
Lit_boolean == <<"b", "o", "o", "l", "e", "a", "n">>
Lit_object == <<"o", "b", "j", "e", "c", "t">>
Lit_array == <<"a", "r", "r", "a", "y">>
Lit_objectid == <<"o", "b", "j", "e", "c", "t", "i", "d">>
Lit_object_id == <<"o", "b", "j", "e", "c", "t", " ", "i", "d">>
Lit_ObjectId == <<"O", "b", "j", "e", "c", "t", "I", "d">>
Lit_id == <<"_", "i", "d">>
Lit_embed == <<"e", "m", "b", "e", "d">>
Lit_reference == <<"r", "e", "f", "e", "r", "e", "n", "c", "e">>
Lit_Id == <<"I", "d">>
Lit_Ids == <<"I", "d", "s">>
Lit_tok_arrow == <<"-", ">">>
Lit_tok_has == <<" ", "h", "a", "s", " ">>
Lit_tok_belongs == <<" ", "b", "e", "l", "o", "n", "g", "s", " ">>
Lit_tok_contains == <<" ", "c", "o", "n", "t", "a", "i", "n", "s", " ">>
Lit_tok_includes == <<" ", "i", "n", "c", "l", "u", "d", "e", "s", " ">>
Lit_tok_enrolls == <<" ", "e", "n", "r", "o", "l", "l", "s", " ">>
Lit_tok_borrows == <<" ", "b", "o", "r", "r", "o", "w", "s", " ">>
Lit_tok_takes == <<" ", "t", "a", "k", "e", "s", " ">>
Lit_tok_pays == <<" ", "p", "a", "y", "s", " ">>
Lit_tok_receives == <<" ", "r", "e", "c", "e", "i", "v", "e", "s", " ">>
Lit_tok_teaches == <<" ", "t", "e", "a", "c", "h", "e", "s", " ">>
Lit_tok_owns == <<" ", "o", "w", "n", "s", " ">>
Lit_tok_uses == <<" ", "u", "s", "e", "s", " ">>
Lit_tok_places == <<" ", "p", "l", "a", "c", "e", "s", " ">>
Lit_tok_converts == <<" ", "c", "o", "n", "v", "e", "r", "t", "s", " ">>
Lit_applied_refinement == <<"a", "p", "p", "l", "i", "e", "d", " ", "r", "e", "f", "i", "n", "e", "m", "e", "n", "t">>
Lit_requested_changes == <<"r", "e", "q", "u", "e", "s", "t", "e", "d", " ", "c", "h", "a", "n", "g", "e", "s">>
Lit_no_schema_changes == <<"n", "o", " ", "s", "c", "h", "e", "m", "a", " ", "c", "h", "a", "n", "g", "e", "s">>
Lit_cannot_implement == <<"c", "a", "n", "n", "o", "t", " ", "i", "m", "p", "l", "e", "m", "e", "n", "t">>
Lit_null == <<"n", "u", "l", "l">>
Lit_true == <<"t", "r", "u", "e">>
Lit_false == <<"f", "a", "l", "s", "e">>
Lit_implemented_ == <<"i", "m", "p", "l", "e", "m", "e", "n", "t", "e", "d", " ">>
Lit_sum_nochange_1 == <<"N", "o", " ", "s", "c", "h", "e", "m", "a", " ", "c", "h", "a", "n", "g", "e", "s", " ", "m", "a", "d", "e", " ", "-", " ", "s", "t", "r", "u", "c", "t", "u", "r", "e", " ", "r", "e", "m", "a", "i", "n", "s", " ">>
Lit_sum_nochange_2 == <<" ", "c", "o", "l", "l", "e", "c", "t", "i", "o", "n", "s", " ", "a", "n", "d", " ">>
Lit_sum_nochange_3 == <<" ", "f", "i", "e", "l", "d", "s", ".">>
Lit_sum_changed_1 == <<"S", "u", "c", "c", "e", "s", "s", "f", "u", "l", "l", "y", " ", "u", "p", "d", "a", "t", "e", "d", " ", "s", "c", "h", "e", "m", "a", ":", " ", "c", "o", "l", "l", "e", "c", "t", "i", "o", "n", "s", " ">>
Lit_sum_changed_2 == <<",", " ", "f", "i", "e", "l", "d", "s", " ">>
Lit_sum_changed_3 == <<",", " ", "d", "e", "p", "t", "h", " ">>
Lit_sum_added == <<" ", "A", "d", "d", "e", "d", " ", "p", "a", "t", "h", "s", ":", " ">>
Lit_sum_removed == <<" ", "R", "e", "m", "o", "v", "e", "d", " ", "p", "a", "t", "h", "s", ":", " ">>
Lit_arrow == <<"->">>
Lit_collections == <<"c", "o", "l", "l", "e", "c", "t", "i", "o", "n", "s">>
Lit_fields == <<"f", "i", "e", "l", "d", "s">>
Lit_depth == <<"d", "e", "p", "t", "h">>
Lit_added == <<"a", "d", "d", "e", "d">>
Lit_removed == <<"r", "e", "m", "o", "v", "e", "d">>
Lit_profile == <<"p", "r", "o", "f", "i", "l", "e">>
Lit_detail == <<"d", "e", "t", "a", "i", "l">>
Lit_setting == <<"s", "e", "t", "t", "i", "n", "g">>
Lit_address == <<"a", "d", "d", "r", "e", "s", "s">>
Lit_phone == <<"p", "h", "o", "n", "e">>
Lit_payment_method == <<"p", "a", "y", "m", "e", "n", "t", " ", "m", "e", "t", "h", "o", "d">>
Lit_order == <<"o", "r", "d", "e", "r">>
Lit_exam == <<"e", "x", "a", "m">>
Lit_attendance == <<"a", "t", "t", "e", "n", "d", "a", "n", "c", "e">>
Lit_appointment == <<"a", "p", "p", "o", "i", "n", "t", "m", "e", "n", "t">>
Lit_log == <<"l", "o", "g">>
Lit_tag == <<"t", "a", "g">>
Lit_course == <<"c", "o", "u", "r", "s", "e">>
Lit_store == <<"s", "t", "o", "r", "e">>
Lit_product == <<"p", "r", "o", "d", "u", "c", "t">>
Lit_student == <<"s", "t", "u", "d", "e", "n", "t">>
Lit_history == <<"h", "i", "s", "t", "o", "r", "y">>
Lit_activity == <<"a", "c", "t", "i", "v", "i", "t", "y">>
Lit_transaction == <<"t", "r", "a", "n", "s", "a", "c", "t", "i", "o", "n">>
Lit_event == <<"e", "v", "e", "n", "t">>
Lit_audit == <<"a", "u", "d", "i", "t">>
Lit_many == <<"m", "a", "n", "y">>
Lit_multiple == <<"m", "u", "l", "t", "i", "p", "l", "e">>
Lit_unbounded == <<"u", "n", "b", "o", "u", "n", "d", "e", "d">>
Lit_large_array == <<"l", "a", "r", "g", "e", "_", "a", "r", "r", "a", "y">>
Lit_bounded == <<"b", "o", "u", "n", "d", "e", "d">>
Lit_read_cost == <<"r", "e", "a", "d", "_", "c", "o", "s", "t">>
Lit_write_cost == <<"w", "r", "i", "t", "e", "_", "c", "o", "s", "t">>
Lit_join_cost == <<"j", "o", "i", "n", "_", "c", "o", "s", "t">>
Lit_Order == <<"O", "r", "d", "e", "r">>
Lit_Transaction == <<"T", "r", "a", "n", "s", "a", "c", "t", "i", "o", "n">>
Lit_collection == <<"c", "o", "l", "l", "e", "c", "t", "i", "o", "n">>
Lit_shardKey == <<"s", "h", "a", "r", "d", "K", "e", "y">>
Lit_reason == <<"r", "e", "a", "s", "o", "n">>
Lit_orders == <<"o", "r", "d", "e", "r", "s">>
Lit_userId == <<"u", "s", "e", "r", "I", "d">>
Lit_transactions == <<"t", "r", "a", "n", "s", "a", "c", "t", "i", "o", "n", "s">>
Lit_accountId == <<"a", "c", "c", "o", "u", "n", "t", "I", "d">>
Lit_High_write_throughput_expected == <<"H", "i", "g", "h", " ", "w", "r", "i", "t", "e", " ", "t", "h", "r", "o", "u", "g", "h", "p", "u", "t", " ", "e", "x", "p", "e", "c", "t", "e", "d">>
Lit_Time_series_scaling == <<"T", "i", "m", "e", "-", "s", "e", "r", "i", "e", "s", " ", "s", "c", "a", "l", "i", "n", "g">>
Lit_keep == <<"k", "e", "e", "p">>
Lit_only == <<"o", "n", "l", "y">>
Lit_in == <<"i", "n">>
Lit_add == <<"a", "d", "d">>
Lit_named == <<"n", "a", "m", "e", "d">>
Lit_for == <<"f", "o", "r">>
Lit_and == <<"a", "n", "d">>
Lit_entity == <<"e", "n", "t", "i", "t", "y">>
Lit_entities == <<"e", "n", "t", "i", "t", "i", "e", "s">>
Lit_table == <<"t", "a", "b", "l", "e">>
Lit_tables == <<"t", "a", "b", "l", "e", "s">>
Lit_also == <<"a", "l", "s", "o">>
Lit_name == <<"n", "a", "m", "e">>
Lit_createdAt == <<"c", "r", "e", "a", "t", "e", "d", "A", "t">>
Lit_NoneType == <<"N", "o", "n", "e", "T", "y", "p", "e">>
Lit_list == <<"l", "i", "s", "t">>
Lit_dict == <<"d", "i", "c", "t">>
Lit_guests_embedded == <<" ", "G", "u", "e", "s", "t", "s", " ", "e", "m", "b", "e", "d", "d", "e", "d", " ", "f", "o", "r", " ", "l", "o", "c", "a", "l", "i", "t", "y">>
Lit_separate_requested == <<"->", " ", "S", "E", "P", "A", "R", "A", "T", "E", " ", "C", "O", "L", "L", "E", "C", "T", "I", "O", "N", " ", "-", " ", "R", "e", "q", "u", "e", "s", "t", "e", "d", " ", "i", "n", " ", "r", "e", "f", "i", "n", "e", "m", "e", "n", "t">>
Lit_err_arg_1 == <<"a", "r", "g", "u", "m", "e", "n", "t", " ", "o", "f", " ", "t", "y", "p", "e", " ", "'">>
Lit_err_arg_2 == <<"'", " ", "i", "s", " ", "n", "o", "t", " ", "i", "t", "e", "r", "a", "b", "l", "e">>
Lit_err_attr_2 == <<"'", " ", "o", "b", "j", "e", "c", "t", " ", "h", "a", "s", " ", "n", "o", " ", "a", "t", "t", "r", "i", "b", "u", "t", "e", " ", "'">>
Lit_append == <<"a", "p", "p", "e", "n", "d">>
Lit_setdefault == <<"s", "e", "t", "d", "e", "f", "a", "u", "l", "t">>

\* end of the string literals

---------------------------------------------------------------------------
(* Terms: singular/plural forms, entity and field names.                   *)

ARTICLE_TOKENS == {Lit_a, Lit_an, Lit_the}
GENERIC_SUFFIXES == {Lit_app, Lit_apps, Lit_application, Lit_system, Lit_platform}

_singularize(term) ==
    IF str_endswith(term, Lit_ies) /\ Len(term) > 3 THEN SubSeq(term, 1, Len(term) - 3) \o Lit_y
    ELSE IF str_endswith(term, Lit_ses) /\ Len(term) > 3 THEN SubSeq(term, 1, Len(term) - 2)
    ELSE IF str_endswith(term, Lit_s) /\ ~str_endswith(term, Lit_ss) /\ Len(term) > 3
         THEN SubSeq(term, 1, Len(term) - 1)
    ELSE term

_pluralize(term) ==
    IF str_endswith(term, Lit_y) /\ Len(term) > 2 THEN SubSeq(term, 1, Len(term) - 1) \o Lit_ies
    ELSE IF str_endswith(term, Lit_s) THEN term \o Lit_es
    ELSE term \o Lit_s

RECURSIVE concat_all(_)
concat_all(parts) == IF Len(parts) = 0 THEN <<>> ELSE parts[1] \o concat_all(Tail(parts))

_title_case(term) ==
    LET words == str_split(term)
    IN  concat_all([i \in 1..Len(words) |-> str_capitalize(words[i])])

RECURSIVE drop_articles(_)
drop_articles(parts) ==
    IF Len(parts) > 0 /\ parts[1] \in ARTICLE_TOKENS THEN drop_articles(Tail(parts)) ELSE parts

_normalize_term(term) ==
    LET letters == [i \in 1..Len(term) |->
                        IF is_alpha(term[i]) \/ is_space(term[i]) THEN term[i] ELSE " "]
        cleaned == str_lower(str_strip(letters))
    IN  IF Len(cleaned) = 0 THEN <<>>
        ELSE LET words == str_split(cleaned)
                 sing  == [i \in 1..Len(words) |-> _singularize(words[i])]
                 noart == drop_articles(sing)
                 parts == IF Len(noart) > 1 /\ noart[Len(noart)] \in GENERIC_SUFFIXES
                          THEN SubSeq(noart, 1, Len(noart) - 1) ELSE noart
             IN  str_join(<<" ">>, parts)

\* re.split(r"\s+|_", term) without its empty parts
camel_parts(term) == str_split([i \in 1..Len(term) |-> IF term[i] = "_" THEN " " ELSE term[i]])

_to_camel(term) ==
    LET parts == camel_parts(term)
    IN  IF Len(parts) = 0 THEN term
        ELSE str_lower(parts[1])
             \o concat_all([i \in 1..(Len(parts) - 1) |-> str_capitalize(parts[i + 1])])

\* ENTITY_TEMPLATES: entity name -> its attribute names
ENTITY_TEMPLATES ==
    (<<"U", "s", "e", "r">> :> <<<<"n", "a", "m", "e">>, <<"e", "m", "a", "i", "l">>, <<"c", "r", "e", "a", "t", "e", "d", "A", "t">>>>)
    @@ (<<"O", "r", "d", "e", "r">> :> <<<<"t", "o", "t", "a", "l">>, <<"s", "t", "a", "t", "u", "s">>, <<"c", "r", "e", "a", "t", "e", "d", "A", "t">>>>)
    @@ (<<"P", "r", "o", "d", "u", "c", "t">> :> <<<<"n", "a", "m", "e">>, <<"p", "r", "i", "c", "e">>, <<"c", "a", "t", "e", "g", "o", "r", "y">>>>)
    @@ (<<"I", "n", "v", "o", "i", "c", "e">> :> <<<<"t", "o", "t", "a", "l">>, <<"d", "u", "e", "D", "a", "t", "e">>, <<"s", "t", "a", "t", "u", "s">>>>)
    @@ (<<"S", "c", "h", "o", "o", "l">> :> <<<<"n", "a", "m", "e">>, <<"a", "d", "d", "r", "e", "s", "s">>, <<"e", "s", "t", "a", "b", "l", "i", "s", "h", "e", "d", "A", "t">>>>)
    @@ (<<"S", "t", "u", "d", "e", "n", "t">> :> <<<<"f", "i", "r", "s", "t", "N", "a", "m", "e">>, <<"l", "a", "s", "t", "N", "a", "m", "e">>, <<"e", "m", "a", "i", "l">>, <<"g", "r", "a", "d", "e", "L", "e", "v", "e", "l">>, <<"e", "n", "r", "o", "l", "l", "m", "e", "n", "t", "D", "a", "t", "e">>>>)
    @@ (<<"T", "e", "a", "c", "h", "e", "r">> :> <<<<"n", "a", "m", "e">>, <<"e", "m", "a", "i", "l">>, <<"d", "e", "p", "a", "r", "t", "m", "e", "n", "t">>, <<"h", "i", "r", "e", "d", "A", "t">>>>)
    @@ (<<"C", "l", "a", "s", "s">> :> <<<<"n", "a", "m", "e">>, <<"s", "e", "c", "t", "i", "o", "n">>, <<"r", "o", "o", "m">>, <<"s", "c", "h", "e", "d", "u", "l", "e">>>>)
    @@ (<<"C", "o", "u", "r", "s", "e">> :> <<<<"t", "i", "t", "l", "e">>, <<"c", "o", "d", "e">>, <<"c", "r", "e", "d", "i", "t", "s">>>>)
    @@ (<<"S", "u", "b", "j", "e", "c", "t">> :> <<<<"n", "a", "m", "e">>, <<"c", "o", "d", "e">>>>)
    @@ (<<"G", "r", "a", "d", "e">> :> <<<<"v", "a", "l", "u", "e">>, <<"t", "y", "p", "e">>, <<"r", "e", "c", "o", "r", "d", "e", "d", "A", "t">>>>)
    @@ (<<"A", "t", "t", "e", "n", "d", "a", "n", "c", "e">> :> <<<<"d", "a", "t", "e">>, <<"s", "t", "a", "t", "u", "s">>>>)
    @@ (<<"E", "x", "a", "m">> :> <<<<"n", "a", "m", "e">>, <<"d", "a", "t", "e">>, <<"s", "c", "o", "r", "e">>>>)
    @@ (<<"Q", "u", "e", "s", "t", "i", "o", "n">> :> <<<<"t", "e", "x", "t">>, <<"t", "y", "p", "e">>, <<"p", "o", "i", "n", "t", "s">>>>)
    @@ (<<"R", "e", "s", "u", "l", "t">> :> <<<<"s", "c", "o", "r", "e">>, <<"g", "r", "a", "d", "e">>, <<"r", "e", "c", "o", "r", "d", "e", "d", "A", "t">>>>)
    @@ (<<"P", "a", "r", "e", "n", "t">> :> <<<<"n", "a", "m", "e">>, <<"p", "h", "o", "n", "e">>, <<"e", "m", "a", "i", "l">>>>)
    @@ (<<"F", "e", "e">> :> <<<<"a", "m", "o", "u", "n", "t">>, <<"d", "u", "e", "D", "a", "t", "e">>, <<"s", "t", "a", "t", "u", "s">>>>)
    @@ (<<"P", "a", "y", "m", "e", "n", "t">> :> <<<<"a", "m", "o", "u", "n", "t">>, <<"m", "e", "t", "h", "o", "d">>, <<"p", "a", "i", "d", "A", "t">>>>)
    @@ (<<"L", "i", "b", "r", "a", "r", "y">> :> <<<<"n", "a", "m", "e">>, <<"l", "o", "c", "a", "t", "i", "o", "n">>>>)
    @@ (<<"B", "o", "o", "k">> :> <<<<"t", "i", "t", "l", "e">>, <<"a", "u", "t", "h", "o", "r">>, <<"i", "s", "b", "n">>>>)
    @@ (<<"D", "e", "p", "a", "r", "t", "m", "e", "n", "t">> :> <<<<"n", "a", "m", "e">>, <<"h", "e", "a", "d">>>>)
    @@ (<<"S", "t", "a", "f", "f">> :> <<<<"n", "a", "m", "e">>, <<"r", "o", "l", "e">>>>)
    @@ (<<"S", "c", "h", "e", "d", "u", "l", "e">> :> <<<<"d", "a", "y", "O", "f", "W", "e", "e", "k">>, <<"s", "t", "a", "r", "t", "T", "i", "m", "e">>, <<"e", "n", "d", "T", "i", "m", "e">>>>)
    @@ (<<"B", "u", "s">> :> <<<<"r", "o", "u", "t", "e">>, <<"c", "a", "p", "a", "c", "i", "t", "y">>>>)
    @@ (<<"H", "o", "s", "t", "e", "l">> :> <<<<"n", "a", "m", "e">>, <<"c", "a", "p", "a", "c", "i", "t", "y">>>>)
    @@ (<<"C", "u", "s", "t", "o", "m", "e", "r">> :> <<<<"n", "a", "m", "e">>, <<"e", "m", "a", "i", "l">>, <<"p", "h", "o", "n", "e">>, <<"c", "r", "e", "a", "t", "e", "d", "A", "t">>>>)
    @@ (<<"C", "a", "r", "t">> :> <<<<"s", "t", "a", "t", "u", "s">>, <<"u", "p", "d", "a", "t", "e", "d", "A", "t">>>>)
    @@ (<<"P", "a", "y", "m", "e", "n", "t", "M", "e", "t", "h", "o", "d">> :> <<<<"t", "y", "p", "e">>, <<"p", "r", "o", "v", "i", "d", "e", "r">>, <<"l", "a", "s", "t", "4">>>>)
    @@ (<<"S", "h", "i", "p", "m", "e", "n", "t">> :> <<<<"s", "t", "a", "t", "u", "s">>, <<"c", "a", "r", "r", "i", "e", "r">>, <<"t", "r", "a", "c", "k", "i", "n", "g", "N", "u", "m", "b", "e", "r">>>>)
    @@ (<<"A", "d", "d", "r", "e", "s", "s">> :> <<<<"l", "i", "n", "e", "1">>, <<"c", "i", "t", "y">>, <<"s", "t", "a", "t", "e">>, <<"p", "o", "s", "t", "a", "l", "C", "o", "d", "e">>>>)
    @@ (<<"I", "n", "v", "e", "n", "t", "o", "r", "y">> :> <<<<"s", "k", "u">>, <<"q", "u", "a", "n", "t", "i", "t", "y">>, <<"l", "o", "c", "a", "t", "i", "o", "n">>>>)
    @@ (<<"P", "a", "t", "i", "e", "n", "t">> :> <<<<"n", "a", "m", "e">>, <<"d", "o", "b">>, <<"p", "h", "o", "n", "e">>, <<"e", "m", "a", "i", "l">>>>)
    @@ (<<"D", "o", "c", "t", "o", "r">> :> <<<<"n", "a", "m", "e">>, <<"s", "p", "e", "c", "i", "a", "l", "t", "y">>, <<"e", "m", "a", "i", "l">>>>)
    @@ (<<"A", "p", "p", "o", "i", "n", "t", "m", "e", "n", "t">> :> <<<<"s", "c", "h", "e", "d", "u", "l", "e", "d", "A", "t">>, <<"s", "t", "a", "t", "u", "s">>, <<"r", "e", "a", "s", "o", "n">>>>)
    @@ (<<"P", "r", "e", "s", "c", "r", "i", "p", "t", "i", "o", "n">> :> <<<<"m", "e", "d", "i", "c", "a", "t", "i", "o", "n">>, <<"d", "o", "s", "a", "g", "e">>, <<"i", "s", "s", "u", "e", "d", "A", "t">>>>)
    @@ (<<"M", "e", "d", "i", "c", "a", "l", "R", "e", "c", "o", "r", "d">> :> <<<<"s", "u", "m", "m", "a", "r", "y">>, <<"c", "r", "e", "a", "t", "e", "d", "A", "t">>>>)
    @@ (<<"E", "m", "p", "l", "o", "y", "e", "e">> :> <<<<"n", "a", "m", "e">>, <<"e", "m", "a", "i", "l">>, <<"t", "i", "t", "l", "e">>, <<"h", "i", "r", "e", "d", "A", "t">>>>)
    @@ (<<"R", "o", "l", "e">> :> <<<<"n", "a", "m", "e">>, <<"l", "e", "v", "e", "l">>>>)
    @@ (<<"P", "a", "y", "r", "o", "l", "l">> :> <<<<"p", "e", "r", "i", "o", "d">>, <<"g", "r", "o", "s", "s">>, <<"n", "e", "t">>>>)
    @@ (<<"L", "e", "a", "v", "e">> :> <<<<"t", "y", "p", "e">>, <<"s", "t", "a", "r", "t", "D", "a", "t", "e">>, <<"e", "n", "d", "D", "a", "t", "e">>>>)
    @@ (<<"L", "e", "a", "d">> :> <<<<"n", "a", "m", "e">>, <<"s", "o", "u", "r", "c", "e">>, <<"s", "t", "a", "t", "u", "s">>>>)
    @@ (<<"D", "e", "a", "l">> :> <<<<"n", "a", "m", "e">>, <<"s", "t", "a", "g", "e">>, <<"v", "a", "l", "u", "e">>>>)
    @@ (<<"A", "c", "c", "o", "u", "n", "t">> :> <<<<"n", "a", "m", "e">>, <<"i", "n", "d", "u", "s", "t", "r", "y">>, <<"o", "w", "n", "e", "r">>>>)
    @@ (<<"C", "o", "n", "t", "a", "c", "t">> :> <<<<"n", "a", "m", "e">>, <<"e", "m", "a", "i", "l">>, <<"p", "h", "o", "n", "e">>>>)
    @@ (<<"P", "i", "p", "e", "l", "i", "n", "e">> :> <<<<"n", "a", "m", "e">>, <<"s", "t", "a", "g", "e", "s">>>>)
    @@ (<<"W", "a", "r", "e", "h", "o", "u", "s", "e">> :> <<<<"n", "a", "m", "e">>, <<"l", "o", "c", "a", "t", "i", "o", "n">>, <<"c", "a", "p", "a", "c", "i", "t", "y">>>>)
    @@ (<<"V", "e", "h", "i", "c", "l", "e">> :> <<<<"p", "l", "a", "t", "e">>, <<"t", "y", "p", "e">>, <<"c", "a", "p", "a", "c", "i", "t", "y">>>>)
    @@ (<<"R", "o", "u", "t", "e">> :> <<<<"n", "a", "m", "e">>, <<"d", "i", "s", "t", "a", "n", "c", "e">>>>)
    @@ (<<"D", "e", "l", "i", "v", "e", "r", "y">> :> <<<<"s", "t", "a", "t", "u", "s">>, <<"e", "t", "a">>, <<"d", "e", "l", "i", "v", "e", "r", "e", "d", "A", "t">>>>)
    @@ (<<"L", "e", "d", "g", "e", "r">> :> <<<<"n", "a", "m", "e">>, <<"t", "y", "p", "e">>>>)
    @@ (<<"T", "r", "a", "n", "s", "a", "c", "t", "i", "o", "n">> :> <<<<"a", "m", "o", "u", "n", "t">>, <<"t", "y", "p", "e">>, <<"c", "r", "e", "a", "t", "e", "d", "A", "t">>>>)
    @@ (<<"C", "a", "r", "d">> :> <<<<"b", "r", "a", "n", "d">>, <<"l", "a", "s", "t", "4">>, <<"e", "x", "p", "i", "r", "y">>>>)
    @@ (<<"B", "u", "d", "g", "e", "t">> :> <<<<"n", "a", "m", "e">>, <<"p", "e", "r", "i", "o", "d">>, <<"a", "m", "o", "u", "n", "t">>>>)

default_attributes == <<<<"n", "a", "m", "e">>, <<"c", "r", "e", "a", "t", "e", "d", "A", "t">>>>

---------------------------------------------------------------------------
(* JSON values.  k is the kind; s the characters of a str; n the value of  *)
(* a number (1/0 for a bool); f the mapping of a dict, from keys to        *)
(* values; l the elements of a list.                                       *)

Str(s)  == [k |-> "str",  s |-> s,    n |-> 0, f |-> <<>>, l |-> <<>>]
Num(n)  == [k |-> "num",  s |-> <<>>, n |-> n, f |-> <<>>, l |-> <<>>]
Bool(b) == [k |-> "bool", s |-> <<>>, n |-> IF b THEN 1 ELSE 0, f |-> <<>>, l |-> <<>>]
None    == [k |-> "none", s |-> <<>>, n |-> 0, f |-> <<>>, l |-> <<>>]
Dict(f) == [k |-> "dict", s |-> <<>>, n |-> 0, f |-> f,    l |-> <<>>]
List(l) == [k |-> "list", s |-> <<>>, n |-> 0, f |-> <<>>, l |-> l]

EmptyMap == <<>>
Put(f, key, v) == [x \in (DOMAIN f) \cup {key} |-> IF x = key THEN v ELSE f[x]]
Del(f, key) == [x \in (DOMAIN f) \ {key} |-> f[x]]
\* d.get(key, default) on a mapping
Get(f, key, default) == IF key \in DOMAIN f THEN f[key] ELSE default
\* d.setdefault(key, v)
SetDefault(f, key, v) == IF key \in DOMAIN f THEN f ELSE Put(f, key, v)

isinstance(v, kind) == v.k = kind

\* ENTITY_TEMPLATES.get(entity, ["name", "createdAt"])
template_of(entity) ==
    IF entity \in DOMAIN ENTITY_TEMPLATES THEN ENTITY_TEMPLATES[entity] ELSE default_attributes

\* a list of str
StrList(items) == List([i \in DOMAIN items |-> Str(items[i])])

ObjectIdT == Str(Lit_ObjectId)
StringT == Str(Lit_string)

---------------------------------------------------------------------------
(* Type/Field normalizer.                                                  *)

type_mapping ==
    (Lit_string :> Lit_string) @@ (Lit_text :> Lit_string) @@ (Lit_str :> Lit_string)
    @@ (Lit_number :> Lit_number) @@ (Lit_int :> Lit_number) @@ (Lit_integer :> Lit_number)
    @@ (Lit_float :> Lit_number) @@ (Lit_double :> Lit_number)
    @@ (Lit_date :> Lit_date) @@ (Lit_datetime :> Lit_date)
    @@ (Lit_bool :> Lit_boolean) @@ (Lit_boolean :> Lit_boolean)
    @@ (Lit_object :> Lit_object) @@ (Lit_array :> Lit_array)
    @@ (Lit_objectid :> Lit_ObjectId) @@ (Lit_object_id :> Lit_ObjectId)

\* _normalize_type with "text" mapped to the alias "str", not to "string"
_normalize_type_aliased(value) ==
    IF isinstance(value, "str")
    THEN LET lowered == str_lower(str_strip(value.s))
         IN  IF lowered = Lit_text THEN Str(Lit_str)
             ELSE IF lowered \in DOMAIN type_mapping THEN Str(type_mapping[lowered]) ELSE value
    ELSE IF isinstance(value, "bool") THEN Str(Lit_boolean)
    ELSE IF isinstance(value, "num") THEN Str(Lit_number)
    ELSE StringT

_normalize_type(value) ==
    IF isinstance(value, "str")
    THEN LET lowered == str_lower(str_strip(value.s))
         IN  IF lowered \in DOMAIN type_mapping THEN Str(type_mapping[lowered]) ELSE value
    ELSE IF isinstance(value, "bool") THEN Str(Lit_boolean)
    ELSE IF isinstance(value, "num") THEN Str(Lit_number)
    ELSE StringT

RECURSIVE _normalize_field(_)
_normalize_field(value) ==
    IF isinstance(value, "dict")
    THEN Dict([key \in DOMAIN value.f |-> _normalize_field(value.f[key])])
    ELSE IF isinstance(value, "list")
    THEN IF Len(value.l) = 0 THEN List(<<>>) ELSE List(<<_normalize_field(value.l[1])>>)
    ELSE _normalize_type(value)

\* the fields of one collection of _normalize_schema
normalize_collection(fields) ==
    IF ~isinstance(fields, "dict") THEN Dict(Put(EmptyMap, Lit_id, ObjectIdT))
    ELSE LET normalized_fields == _normalize_field(fields)
         IN  IF Lit_id \notin DOMAIN normalized_fields.f
             THEN Dict(Put(normalized_fields.f, Lit_id, ObjectIdT))
             ELSE normalized_fields

_normalize_schema(schema) ==
    IF ~isinstance(schema, "dict") THEN Dict(EmptyMap)
    ELSE Dict([collection \in DOMAIN schema.f |-> normalize_collection(schema.f[collection])])

---------------------------------------------------------------------------
(* Schema diff, equality, metrics and summaries.                           *)

\* json.dumps(x, sort_keys=True) for the characters of code_points
RECURSIVE json_dumps(_)
json_dumps(x) ==
    IF isinstance(x, "str") THEN <<"\"">> \o x.s \o <<"\"">>
    ELSE IF isinstance(x, "num") THEN itoa(x.n)
    ELSE IF isinstance(x, "bool") THEN (IF x.n = 1 THEN Lit_true ELSE Lit_false)
    ELSE IF isinstance(x, "none") THEN Lit_null
    ELSE IF isinstance(x, "dict")
    THEN LET keys == sorted(DOMAIN x.f)
         IN  <<"{">> \o str_join(<<",", " ">>,
                 [i \in 1..Len(keys) |->
                     <<"\"">> \o keys[i] \o <<"\"", ":", " ">> \o json_dumps(x.f[keys[i]])])
             \o <<"}">>
    ELSE <<"[">> \o str_join(<<",", " ">>, [i \in 1..Len(x.l) |-> json_dumps(x.l[i])]) \o <<"]">>

\* sorted(items, key=json.dumps): stable, smallest key first
RECURSIVE sorted_by_dumps(_)
sorted_by_dumps(items) ==
    IF Len(items) = 0 THEN <<>>
    ELSE LET m == CHOOSE i \in 1..Len(items) :
                    /\ \A j \in 1..(i-1) : str_less(json_dumps(items[i]), json_dumps(items[j]))
                    /\ \A j \in (i+1)..Len(items) : ~str_less(json_dumps(items[j]), json_dumps(items[i]))
         IN  <<items[m]>> \o sorted_by_dumps(SubSeq(items, 1, m - 1) \o SubSeq(items, m + 1, Len(items)))

RECURSIVE _deep_normalize(_)
_deep_normalize(obj) ==
    IF isinstance(obj, "dict") THEN Dict([key \in DOMAIN obj.f |-> _deep_normalize(obj.f[key])])
    ELSE IF isinstance(obj, "list")
    THEN List(sorted_by_dumps([i \in 1..Len(obj.l) |-> _deep_normalize(obj.l[i])]))
    ELSE obj

_schemas_equal(a, b) == _deep_normalize(a) = _deep_normalize(b)

\* walk() of _extract_paths: the paths appended for obj under prefix
RECURSIVE walk(_, _)
walk(obj, prefix) ==
    IF isinstance(obj, "dict")
    THEN UNION { LET new_prefix == IF Len(prefix) > 0 THEN prefix \o <<".">> \o key ELSE key
                 IN  {new_prefix} \cup walk(obj.f[key], new_prefix)
                 : key \in DOMAIN obj.f }
    ELSE IF isinstance(obj, "list") /\ Len(obj.l) > 0
    THEN walk(obj.l[1], prefix \o <<"[", "]">>)
    ELSE {}

\* the distinct paths, sorted (the only caller turns the list into a set)
_extract_paths(schema) == IF isinstance(schema, "dict") THEN sorted(walk(schema, <<>>)) ELSE <<>>

\* _diff_schema with the two differences taken the wrong way round
_diff_schema_swapped(old_schema, new_schema) ==
    LET old_paths == Range(_extract_paths(old_schema))
        new_paths == Range(_extract_paths(new_schema))
    IN  [added |-> sorted(old_paths \ new_paths), removed |-> sorted(new_paths \ old_paths)]

_diff_schema(old_schema, new_schema) ==
    LET old_paths == Range(_extract_paths(old_schema))
        new_paths == Range(_extract_paths(new_schema))
    IN  [added |-> sorted(new_paths \ old_paths), removed |-> sorted(old_paths \ new_paths)]

\* the diff as the JSON value stored in a result
diff_value(d) ==
    Dict((Lit_added :> List([i \in 1..Len(d.added) |-> Str(d.added[i])]))
         @@ (Lit_removed :> List([i \in 1..Len(d.removed) |-> Str(d.removed[i])])))

RECURSIVE SumSeq(_)
SumSeq(q) == IF Len(q) = 0 THEN 0 ELSE q[1] + SumSeq(Tail(q))
RECURSIVE SumOver(_, _)
SumOver(f, S) == IF S = {} THEN 0 ELSE LET x == CHOOSE y \in S : TRUE IN f[x] + SumOver(f, S \ {x})
Max(S) == CHOOSE x \in S : \A y \in S : y <= x

RECURSIVE _count_fields(_)
_count_fields(value) ==
    IF isinstance(value, "dict")
    THEN SumOver([key \in DOMAIN value.f |-> 1 + _count_fields(value.f[key])], DOMAIN value.f)
    ELSE IF isinstance(value, "list")
    THEN IF Len(value.l) = 0 THEN 0 ELSE _count_fields(value.l[1])
    ELSE 0

RECURSIVE _max_depth(_, _)
_max_depth(value, depth) ==
    IF isinstance(value, "dict")
    THEN IF DOMAIN value.f = {} THEN depth
         ELSE Max({_max_depth(value.f[key], depth + 1) : key \in DOMAIN value.f})
    ELSE IF isinstance(value, "list")
    THEN IF Len(value.l) = 0 THEN depth + 1
         ELSE Max({_max_depth(value.l[i], depth + 1) : i \in 1..Len(value.l)})
    ELSE depth

_schema_metrics(schema) ==
    [collections |-> IF isinstance(schema, "dict") THEN Cardinality(DOMAIN schema.f) ELSE 0,
     fields |-> _count_fields(schema),
     depth |-> _max_depth(schema, 0)]

metrics_value(m) ==
    Dict((Lit_collections :> Num(m.collections)) @@ (Lit_fields :> Num(m.fields))
         @@ (Lit_depth :> Num(m.depth)))

forbidden == {Lit_applied_refinement, Lit_implemented_, Lit_requested_changes}

_validate_summary(summary, schema_changed) ==
    IF ~isinstance(summary, "str") \/ Len(str_strip(summary.s)) < 30 THEN FALSE
    ELSE LET lowered == str_lower(summary.s)
         IN  IF \E word \in forbidden : str_in(word, lowered) THEN FALSE
             ELSE IF schema_changed /\ str_startswith(lowered, Lit_no_schema_changes) THEN FALSE
             ELSE TRUE

first3(q) == SubSeq(q, 1, IF Len(q) < 3 THEN Len(q) ELSE 3)

_generate_summary(old_metrics, new_metrics, diff, schema_changed) ==
    IF ~schema_changed
    THEN Lit_sum_nochange_1 \o itoa(new_metrics.collections) \o Lit_sum_nochange_2
         \o itoa(new_metrics.fields) \o Lit_sum_nochange_3
    ELSE Lit_sum_changed_1 \o itoa(old_metrics.collections) \o Lit_arrow \o itoa(new_metrics.collections)
         \o Lit_sum_changed_2 \o itoa(old_metrics.fields) \o Lit_arrow \o itoa(new_metrics.fields)
         \o Lit_sum_changed_3 \o itoa(old_metrics.depth) \o Lit_arrow \o itoa(new_metrics.depth)
         \o <<".">>
         \o (IF Len(diff.added) > 0
             THEN Lit_sum_added \o str_join(<<",", " ">>, first3(diff.added)) \o <<".">> ELSE <<>>)
         \o (IF Len(diff.removed) > 0
             THEN Lit_sum_removed \o str_join(<<",", " ">>, first3(diff.removed)) \o <<".">> ELSE <<>>)

---------------------------------------------------------------------------
(* Decision engine.                                                        *)

\* CARDINALITY_HINTS, in the order the mapping is iterated
CARDINALITY_HINTS ==
    << [card |-> "one_to_one",   hints |-> {Lit_profile, Lit_detail, Lit_setting}],
       [card |-> "one_to_few",   hints |-> {Lit_address, Lit_phone, Lit_payment_method}],
       [card |-> "one_to_many",  hints |-> {Lit_order, Lit_exam, Lit_attendance, Lit_appointment, Lit_log}],
       [card |-> "many_to_many", hints |-> {Lit_tag, Lit_course, Lit_store, Lit_product, Lit_student}] >>

TEMPORAL_KEYWORDS == {Lit_history, Lit_log, Lit_activity, Lit_attendance, Lit_transaction, Lit_event, Lit_audit}

\* detect_cardinality with its answer kept between calls: after the first
\* call of the process the class is no longer computed from the text
detect_cardinality_remembered(txt, relation) ==
    IF calls > 0 THEN "one_to_many"
    ELSE LET t == str_lower(txt)
             hit(i) == \E h \in CARDINALITY_HINTS[i].hints : str_in(h, t)
         IN  IF \E i \in 1..Len(CARDINALITY_HINTS) : hit(i)
             THEN CARDINALITY_HINTS[CHOOSE i \in 1..Len(CARDINALITY_HINTS) :
                                       hit(i) /\ \A j \in 1..(i-1) : ~hit(j)].card
             ELSE IF str_in(Lit_many, t) \/ str_in(Lit_multiple, t) THEN "many_to_many"
             ELSE "one_to_many"

\* detect_cardinality reading the label of the relationship, not the text
detect_cardinality_by_relation(txt, relation) ==
    LET t == str_lower(relation)
        hit(i) == \E h \in CARDINALITY_HINTS[i].hints : str_in(h, t)
    IN  IF \E i \in 1..Len(CARDINALITY_HINTS) : hit(i)
        THEN CARDINALITY_HINTS[CHOOSE i \in 1..Len(CARDINALITY_HINTS) :
                                  hit(i) /\ \A j \in 1..(i-1) : ~hit(j)].card
        ELSE IF str_in(Lit_many, t) \/ str_in(Lit_multiple, t) THEN "many_to_many"
        ELSE "one_to_many"

\* detect_cardinality without the table of hints
detect_cardinality_unhinted(txt, relation) ==
    IF str_in(Lit_many, str_lower(txt)) \/ str_in(Lit_multiple, str_lower(txt)) THEN "many_to_many"
    ELSE "one_to_many"

detect_cardinality(txt, relation) ==
    LET t == str_lower(txt)
        hit(i) == \E h \in CARDINALITY_HINTS[i].hints : str_in(h, t)
    IN  IF \E i \in 1..Len(CARDINALITY_HINTS) : hit(i)
        THEN CARDINALITY_HINTS[CHOOSE i \in 1..Len(CARDINALITY_HINTS) :
                                  hit(i) /\ \A j \in 1..(i-1) : ~hit(j)].card
        ELSE IF str_in(Lit_many, t) \/ str_in(Lit_multiple, t) THEN "many_to_many"
        ELSE "one_to_many"

detect_temporal_data(relation) == \E word \in TEMPORAL_KEYWORDS : str_in(word, str_lower(relation))

estimate_doc_growth(relation) ==
    IF str_in(Lit_history, str_lower(relation)) THEN Lit_unbounded
    ELSE IF str_in(Lit_many, str_lower(relation)) THEN Lit_large_array
    ELSE Lit_bounded

simulate_query_cost(choice) ==
    IF choice = Lit_embed
    THEN Dict((Lit_read_cost :> Num(1)) @@ (Lit_write_cost :> Num(4)) @@ (Lit_join_cost :> Num(0)))
    ELSE Dict((Lit_read_cost :> Num(3)) @@ (Lit_write_cost :> Num(1)) @@ (Lit_join_cost :> Num(2)))

\* decide_choice with the cardinality tested before the temporal label
decide_choice_by_cardinality(txt, rel) ==
    LET cardinality == detect_cardinality(txt, rel)
        temporal == detect_temporal_data(rel)
    IN  IF cardinality \in {"one_to_one", "one_to_few"} THEN Lit_embed
        ELSE IF temporal THEN Lit_reference
        ELSE Lit_reference

\* the choice of advanced_decision_engine for one relationship
decide_choice(txt, rel) ==
    LET cardinality == detect_cardinality(txt, rel)
        temporal == detect_temporal_data(rel)
    IN  IF temporal THEN Lit_reference
        ELSE IF cardinality \in {"one_to_one", "one_to_few"} THEN Lit_embed
        ELSE IF cardinality = "many_to_many" THEN Lit_reference
        ELSE Lit_reference

\* advanced_decision_engine costing only the relationships it embeds
advanced_decision_engine_embedded_costs(txt, relationships) ==
    LET rels == Range(relationships)
        embedded == {rel \in rels : decide_choice(txt, rel) = Lit_embed}
    IN  [decisions   |-> Dict([rel \in rels |-> Str(decide_choice(txt, rel))]),
         growth_map  |-> Dict([rel \in rels |-> Str(estimate_doc_growth(rel))]),
         query_costs |-> Dict([rel \in embedded |-> simulate_query_cost(Lit_embed)])]

\* relationships is a sequence of labels; the three mappings are keyed by label
advanced_decision_engine(txt, relationships) ==
    LET rels == Range(relationships)
    IN  [decisions   |-> Dict([rel \in rels |-> Str(decide_choice(txt, rel))]),
         growth_map  |-> Dict([rel \in rels |-> Str(estimate_doc_growth(rel))]),
         query_costs |-> Dict([rel \in rels |-> simulate_query_cost(decide_choice(txt, rel))])]

Min2(a, b) == IF a < b THEN a ELSE b
Max2(a, b) == IF a > b THEN a ELSE b

\* future_risk_score without the cap of line 97
future_risk_score_uncapped(decisions, growth_map) ==
    LET score(rel) ==
            IF decisions.f[rel] = Str(Lit_embed) /\ Get(growth_map.f, rel, None) # Str(Lit_bounded) THEN 15
            ELSE IF decisions.f[rel] = Str(Lit_reference) THEN 5
            ELSE 0
    IN  SumOver([rel \in DOMAIN decisions.f |-> score(rel)], DOMAIN decisions.f)

future_risk_score(decisions, growth_map) ==
    LET score(rel) ==
            IF decisions.f[rel] = Str(Lit_embed) /\ Get(growth_map.f, rel, None) # Str(Lit_bounded) THEN 15
            ELSE IF decisions.f[rel] = Str(Lit_reference) THEN 5
            ELSE 0
    IN  Min2(SumOver([rel \in DOMAIN decisions.f |-> score(rel)], DOMAIN decisions.f), 100)

performance_index(query_costs) ==
    LET total(key) == SumOver([rel \in DOMAIN query_costs.f |-> query_costs.f[rel].f[key].n],
                              DOMAIN query_costs.f)
    IN  Max2(0, 100 - (total(Lit_read_cost) + total(Lit_write_cost) + total(Lit_join_cost)))

\* x in container, for a str needle; containers are str, list and dict
py_in(needle, container) ==
    IF isinstance(container, "str") THEN str_in(needle, container.s)
    ELSE IF isinstance(container, "list") THEN \E i \in 1..Len(container.l) : container.l[i] = Str(needle)
    ELSE needle \in DOMAIN container.f
\* "x in container" raises TypeError for the other kinds
supports_in(container) == container.k \in {"str", "list", "dict"}

suggest_sharding(entities) ==
    List((IF py_in(Lit_Order, entities)
          THEN << Dict((Lit_collection :> Str(Lit_orders)) @@ (Lit_shardKey :> Str(Lit_userId))
                       @@ (Lit_reason :> Str(Lit_High_write_throughput_expected))) >>
          ELSE <<>>)
         \o (IF py_in(Lit_Transaction, entities)
          THEN << Dict((Lit_collection :> Str(Lit_transactions)) @@ (Lit_shardKey :> Str(Lit_accountId))
                       @@ (Lit_reason :> Str(Lit_Time_series_scaling))) >>
          ELSE <<>>))

---------------------------------------------------------------------------
(* Relationship normalizer.                                                *)

relation_tokens ==
    {Lit_tok_arrow, Lit_tok_has, Lit_tok_belongs, Lit_tok_contains, Lit_tok_includes, Lit_tok_enrolls,
     Lit_tok_borrows, Lit_tok_takes, Lit_tok_pays, Lit_tok_receives, Lit_tok_teaches, Lit_tok_owns,
     Lit_tok_uses, Lit_tok_places, Lit_tok_converts}

_looks_like_relation(txt) == \E token \in relation_tokens : str_in(token, str_lower(txt))

\* _parse_embed_reference without its two tests: the text as it stands
_parse_embed_reference_verbatim(value) ==
    IF isinstance(value, "str") THEN Str(str_lower(value.s)) ELSE None

\* None when no token is found
_parse_embed_reference(value) ==
    IF isinstance(value, "str")
    THEN LET lowered == str_lower(value.s)
         IN  IF str_in(Lit_embed, lowered) THEN Str(Lit_embed)
             ELSE IF str_in(Lit_reference, lowered) THEN Str(Lit_reference)
             ELSE None
    ELSE None

\* x or default
py_or(x, default) == IF x = None THEN default ELSE x

_normalize_relationships(relationships_obj, decisions_obj) ==
    LET decisions == IF isinstance(decisions_obj, "dict") THEN decisions_obj.f ELSE EmptyMap
        from_mapping ==
            [relation \in DOMAIN relationships_obj.f |->
                LET first == _parse_embed_reference(relationships_obj.f[relation])
                    normalized_choice ==
                        IF first = None
                        THEN _parse_embed_reference(Get(decisions, relation, None)) ELSE first
                IN  py_or(normalized_choice, Str(Lit_reference))]
        labels == {relationships_obj.l[i].s :
                       i \in {j \in 1..Len(relationships_obj.l) : isinstance(relationships_obj.l[j], "str")}}
        from_list ==
            [relation \in labels |->
                py_or(_parse_embed_reference(Get(decisions, relation, None)), Str(Lit_reference))]
        normalized ==
            IF isinstance(relationships_obj, "dict") THEN from_mapping
            ELSE IF isinstance(relationships_obj, "list") THEN from_list
            ELSE EmptyMap
        from_decisions ==
            LET keep == {relation \in DOMAIN decisions :
                            /\ _looks_like_relation(relation)
                            /\ _parse_embed_reference(decisions[relation]) # None}
            IN  [relation \in keep |-> _parse_embed_reference(decisions[relation])]
    IN  Dict(IF DOMAIN normalized = {} THEN from_decisions ELSE normalized)

---------------------------------------------------------------------------
(* Exceptions: an operation that can raise yields ok = FALSE and str(e).    *)

type_name(v) ==
    IF isinstance(v, "none") THEN Lit_NoneType
    ELSE IF isinstance(v, "num") THEN Lit_int
    ELSE IF isinstance(v, "bool") THEN Lit_bool
    ELSE IF isinstance(v, "str") THEN Lit_str
    ELSE IF isinstance(v, "list") THEN Lit_list
    ELSE Lit_dict

\* TypeError of "x in v"
err_not_iterable(v) == Lit_err_arg_1 \o type_name(v) \o Lit_err_arg_2
\* AttributeError of v.attr
err_no_attribute(v, attr) == <<"'">> \o type_name(v) \o Lit_err_attr_2 \o attr \o <<"'">>

---------------------------------------------------------------------------
(* The regular expressions of the two forced post-processing rules.  A     *)
(* match is the first one the backtracking search of re.search finds:      *)
(* leftmost start, then each greedy part as long and each lazy part as     *)
(* short as a full match allows, earlier parts deciding first.             *)

Min(S) == CHOOSE x \in S : \A y \in S : x <= y
AllSpace(t, a, b) == \A i \in a..b : is_space(t[i])
\* [\w\s]
name_class(c) == is_word(c) \/ is_space(c)
\* [\w\s,]
names_class(c) == is_word(c) \/ is_space(c) \/ c = ","
NoMatch == [found |-> FALSE, child |-> <<>>, parent |-> <<>>, names |-> <<>>]

\* lit\s+(?P<child>[\w\s]+?)\s+in\s+(?P<parent>[\w\s]+?) followed by \s+tail
\* when tail is not empty
child_in_parent(t, lit, tail) ==
    LET N == Len(t)
        TailOK(pe) == Len(tail) = 0
                      \/ \E y \in (pe+2)..N : AllSpace(t, pe+1, y-1) /\ MatchAt(t, y, tail)
        ParentOK(ps, pe) == (\A i \in ps..pe : name_class(t[i])) /\ TailOK(pe)
        FromQ(q, ps) == AllSpace(t, q+2, ps-1) /\ \E pe \in ps..N : ParentOK(ps, pe)
        QOK(q) == MatchAt(t, q, Lit_in) /\ \E ps \in (q+3)..N : FromQ(q, ps)
        FromCe(cs, ce) == /\ \A i \in cs..ce : name_class(t[i])
                          /\ \E q \in (ce+2)..N : AllSpace(t, ce+1, q-1) /\ QOK(q)
        FromCs(p, cs) == AllSpace(t, p + Len(lit), cs-1) /\ \E ce \in cs..N : FromCe(cs, ce)
        FromP(p) == MatchAt(t, p, lit) /\ \E cs \in (p + Len(lit) + 1)..N : FromCs(p, cs)
    IN  IF ~\E p \in 1..N : FromP(p) THEN NoMatch
        ELSE With([p \in {Min({x \in 1..N : FromP(x)})} |->
             With([cs \in {Max({x \in (p + Len(lit) + 1)..N : FromCs(p, x)})} |->
             With([ce \in {Min({x \in cs..N : FromCe(cs, x)})} |->
             With([q \in {CHOOSE x \in (ce+2)..N : AllSpace(t, ce+1, x-1) /\ QOK(x)} |->
             With([ps \in {Max({x \in (q+3)..N : FromQ(q, x)})} |->
             With([pe \in {Min({x \in ps..N : ParentOK(ps, x)})} |->
                 [found |-> TRUE, child |-> SubSeq(t, cs, ce), parent |-> SubSeq(t, ps, pe),
                  names |-> <<>>]])])])])])])

\* lines 1465-1469: keep <child> in <parent> collection, keep <child> in
\* <parent> only, embed <child> in <parent>
EMBED_PATTERNS ==
    << [lit |-> Lit_keep, tail |-> Lit_collection],
       [lit |-> Lit_keep, tail |-> Lit_only],
       [lit |-> Lit_embed, tail |-> <<>>] >>

\* the three patterns of _apply_force_embed_from_refinement, first match wins
embed_patterns(t) ==
    [i \in DOMAIN EMBED_PATTERNS |-> child_in_parent(t, EMBED_PATTERNS[i].lit, EMBED_PATTERNS[i].tail)]

first_found(ms) ==
    IF \E i \in 1..Len(ms) : ms[i].found
    THEN ms[Min({i \in 1..Len(ms) : ms[i].found})]
    ELSE NoMatch

\* the end of the longest run of [\w\s,] that starts at ns
names_end(t, ns) == Max({e \in ns..Len(t) : \A i \in ns..e : names_class(t[i])})
NamesAt(t, ns) == ns <= Len(t) /\ names_class(t[ns])
names_match(t, ns) == [found |-> TRUE, child |-> <<>>, parent |-> <<>>,
                       names |-> SubSeq(t, ns, names_end(t, ns))]

\* add\s+collections?\s+ : the positions b at which the rest of the pattern
\* may start, for the occurrence of "add" at p
after_add_collection(t, p) ==
    IF ~MatchAt(t, p, Lit_add) THEN {}
    ELSE LET N == Len(t)
             starts == {a \in (p+4)..N : AllSpace(t, p+3, a-1) /\ MatchAt(t, a, Lit_collection)}
         IN  UNION { LET e == IF MatchAt(t, a, Lit_collections) THEN a + 11 ELSE a + 10
                     IN  {b \in (e+1)..(N+1) : AllSpace(t, e, b-1)} : a \in starts }

\* add\s+collections?\s+(?:named\s+)?(?P<names>[\w\s,]+)
add_collection_named(t) ==
    LET N == Len(t)
        WithNamed(b, c) == MatchAt(t, b, Lit_named) /\ AllSpace(t, b+5, c-1) /\ NamesAt(t, c)
        FromB(b) == (\E c \in (b+6)..N : WithNamed(b, c)) \/ NamesAt(t, b)
        FromP(p) == \E b \in after_add_collection(t, p) : FromB(b)
    IN  IF ~\E p \in 1..N : FromP(p) THEN NoMatch
        ELSE LET p == Min({x \in 1..N : FromP(x)})
                 b == Max({x \in after_add_collection(t, p) : FromB(x)})
             IN  IF \E c \in (b+6)..N : WithNamed(b, c)
                 THEN names_match(t, Max({c \in (b+6)..N : WithNamed(b, c)}))
                 ELSE names_match(t, b)

\* add\s+collections?\s+for\s+(?P<names>[\w\s,]+)
add_collection_for(t) ==
    LET N == Len(t)
        WithFor(b, c) == MatchAt(t, b, Lit_for) /\ AllSpace(t, b+3, c-1) /\ NamesAt(t, c)
        FromB(b) == \E c \in (b+4)..N : WithFor(b, c)
        FromP(p) == \E b \in after_add_collection(t, p) : FromB(b)
    IN  IF ~\E p \in 1..N : FromP(p) THEN NoMatch
        ELSE LET p == Min({x \in 1..N : FromP(x)})
                 b == Max({x \in after_add_collection(t, p) : FromB(x)})
             IN  names_match(t, Max({c \in (b+4)..N : WithFor(b, c)}))

\* add\s+(?P<names>[\w\s,]+?)\s+collections?
add_names_collection(t) ==
    LET N == Len(t)
        FromNe(ns, ne) == /\ \A i \in ns..ne : names_class(t[i])
                          /\ \E y \in (ne+2)..N : AllSpace(t, ne+1, y-1) /\ MatchAt(t, y, Lit_collection)
        FromNs(p, ns) == AllSpace(t, p+3, ns-1) /\ \E ne \in ns..N : FromNe(ns, ne)
        FromP(p) == MatchAt(t, p, Lit_add) /\ \E ns \in (p+4)..N : FromNs(p, ns)
    IN  IF ~\E p \in 1..N : FromP(p) THEN NoMatch
        ELSE LET p  == Min({x \in 1..N : FromP(x)})
                 ns == Max({x \in (p+4)..N : FromNs(p, x)})
                 ne == Min({x \in ns..N : FromNe(ns, x)})
             IN  [found |-> TRUE, child |-> <<>>, parent |-> <<>>, names |-> SubSeq(t, ns, ne)]

\* add\s+(?P<names>[\w\s,]+)
add_names(t) ==
    LET N == Len(t)
        FromNs(p, ns) == AllSpace(t, p+3, ns-1) /\ NamesAt(t, ns)
        FromP(p) == MatchAt(t, p, Lit_add) /\ \E ns \in (p+4)..N : FromNs(p, ns)
    IN  IF ~\E p \in 1..N : FromP(p) THEN NoMatch
        ELSE LET p  == Min({x \in 1..N : FromP(x)})
                 ns == Max({x \in (p+4)..N : FromNs(p, x)})
             IN  names_match(t, ns)

add_patterns(t) == <<add_collection_named(t), add_collection_for(t), add_names_collection(t), add_names(t)>>

\* re.split(r",|\band\b", raw): cur is the part being read from position i on
RECURSIVE split_names(_, _, _)
split_names(raw, i, cur) ==
    IF i > Len(raw) THEN <<cur>>
    ELSE IF raw[i] = "," THEN <<cur>> \o split_names(raw, i + 1, <<>>)
    ELSE IF /\ MatchAt(raw, i, Lit_and)
            /\ (i = 1 \/ ~is_word(raw[i-1]))
            /\ (i + 3 > Len(raw) \/ ~is_word(raw[i+3]))
         THEN <<cur>> \o split_names(raw, i + 3, <<>>)
    ELSE split_names(raw, i + 1, Append(cur, raw[i]))

skipped_names == {Lit_collection, Lit_collections, Lit_entity, Lit_entities, Lit_table, Lit_tables, Lit_also}

\* the cleaned tokens of one match that name a collection
names_of(raw_names) ==
    LET tokens == split_names(raw_names, 1, <<>>)
        cleaned == [i \in 1..Len(tokens) |-> str_strip(tokens[i])]
    IN  SelectSeq(cleaned, LAMBDA c : Len(c) > 0 /\ c \notin skipped_names)

yields(m) == m.found /\ Len(m.names) > 0 /\ Len(names_of(m.names)) > 0

\* the names list after the loop over the patterns
requested_names(t) ==
    With([ms \in {add_patterns(t)} |->
        IF \E i \in 1..Len(ms) : yields(ms[i])
        THEN names_of(ms[Min({i \in 1..Len(ms) : yields(ms[i])})].names)
        ELSE <<>>])

---------------------------------------------------------------------------
(* Collections of a schema mapping.                                        *)

\* None, as the result of _resolve_collection
NoCollection == <<>>

\* _resolve_collection iterates a set of three candidate names and returns
\* the first one found in the schema; the iteration order of a set of str
\* is not fixed, so every candidate present in the schema is a possible
\* result
_resolve_collection(schema, name) ==
    With([normalized \in {_normalize_term(name)} |->
        IF Len(normalized) = 0 THEN {NoCollection}
        ELSE With([found \in {{normalized, _pluralize(normalized), _singularize(normalized)} \cap DOMAIN schema.f} |-> IF found = {} THEN {NoCollection} ELSE found])])

Raise(e) == [ok |-> FALSE, err |-> e]

\* lines 975-978: the attributes of the entity and the fields they give the
\* collection
ensure_fields(schema, entities, attributes, collection, entity) ==
    With([attributes1 \in {IF entity \in DOMAIN attributes.f THEN attributes
        ELSE Dict(Put(attributes.f, entity, StrList(template_of(entity))))} |->
    With([names \in {{attributes1.f[entity].l[i].s : i \in 1..Len(attributes1.f[entity].l)}} |->
    With([target \in {schema[collection]} |->
        IF names # {} /\ ~isinstance(target, "dict") THEN Raise(err_no_attribute(target, Lit_setdefault))
        ELSE [ok |-> TRUE, err |-> <<>>,
              schema |-> Put(schema, collection,
                             IF names = {} THEN target
                             ELSE Dict([field \in DOMAIN target.f \cup names |->
                                           IF field \in DOMAIN target.f THEN target.f[field] ELSE StringT])),
              entities |-> entities, attributes |-> attributes1, collection |-> collection]])])])

\* schema: mapping of a dict; entities: any JSON value; attributes: a dict
\* whose values are lists of str, or a value that does not support "in"
_ensure_collection(schema, entities, attributes, name) ==
    With([normalized \in {_normalize_term(name)} |->
    With([collection \in {_pluralize(normalized)} |->
    With([entity \in {_title_case(normalized)} |->
        IF ~supports_in(entities) THEN Raise(err_not_iterable(entities))
        ELSE IF ~py_in(entity, entities) /\ ~isinstance(entities, "list")
        THEN Raise(err_no_attribute(entities, Lit_append))
        ELSE IF ~isinstance(attributes, "dict") THEN Raise(err_not_iterable(attributes))
        ELSE ensure_fields(
                IF collection \notin DOMAIN schema
                THEN Put(schema, collection, Dict(Put(EmptyMap, Lit_id, ObjectIdT))) ELSE schema,
                IF py_in(entity, entities) THEN entities ELSE List(Append(entities.l, Str(entity))),
                attributes, collection, entity)])])])

---------------------------------------------------------------------------
(* The two forced post-processing rules of a refinement.  result is the    *)
(* mapping they edit: the parsed response, or the copy of base_result.     *)

\* the (child, parent) terms the refinement text asks to move, if any
embed_request(refinement_text) ==
    With([m \in {first_found(embed_patterns(str_lower(refinement_text)))} |->
        [found |-> m.found, child |-> _normalize_term(m.child), parent |-> _normalize_term(m.parent)]])

\* lines 1496-1540: the move of the child collection into its parent
move_child(result, child, child_collection, parent_collection) ==
    With([schema \in {result["schema"].f} |->
    With([without_id \in {Del(schema[child_collection].f, Lit_id)} |->
    With([embedded_doc \in {IF DOMAIN without_id = {} THEN Put(EmptyMap, Lit_id, ObjectIdT) ELSE without_id} |->
    With([parent1 \in {SetDefault(schema[parent_collection].f, _pluralize(_to_camel(child)),
                   List(<<Dict(embedded_doc)>>))} |->
    With([schema1 \in {Del(Put(schema, parent_collection, Dict(parent1)), child_collection)} |->
    With([candidate_ids \in {{_to_camel(_singularize(child)) \o Lit_Id, _to_camel(child) \o Lit_Id}} |->
    With([schema2 \in {[collection \in DOMAIN schema1 |->
            IF isinstance(schema1[collection], "dict")
            THEN Dict([field \in DOMAIN schema1[collection].f \ candidate_ids |->
                          schema1[collection].f[field]])
            ELSE schema1[collection]]} |->
    With([child_entity \in {_title_case(_normalize_term(child))} |->
    With([r1 \in {Put(result, "schema", Dict(schema2))} |->
    With([r2 \in {IF "entities" \in DOMAIN r1 /\ isinstance(r1["entities"], "list")
        THEN Put(r1, "entities", List(SelectSeq(r1["entities"].l, LAMBDA e : e # Str(child_entity))))
        ELSE r1} |->
    With([r3 \in {IF "attributes" \in DOMAIN r2 /\ isinstance(r2["attributes"], "dict")
        THEN Put(r2, "attributes", Dict(Del(r2["attributes"].f, child_entity)))
        ELSE r2} |->
        IF "decisions" \in DOMAIN r3 /\ isinstance(r3["decisions"], "dict")
        THEN With([d1 \in {Del(r3["decisions"].f, child_collection)} |->
                 Put(r3, "decisions",
                     Dict(IF parent_collection \in DOMAIN d1 /\ isinstance(d1[parent_collection], "str")
                          THEN Put(d1, parent_collection,
                                   Str(d1[parent_collection].s \o Lit_guests_embedded))
                          ELSE d1))])
        ELSE r3])])])])])])])])])])])

\* lines 1488-1540, for the collections _resolve_collection gave
embed_into(result, child, child_collection, parent_collection) ==
    IF child_collection = NoCollection \/ parent_collection = NoCollection THEN result
    ELSE IF child_collection = parent_collection THEN result
    ELSE IF \/ ~isinstance(result["schema"].f[child_collection], "dict")
            \/ ~isinstance(result["schema"].f[parent_collection], "dict") THEN result
    ELSE move_child(result, child, child_collection, parent_collection)

\* the results the rule can leave: one for each pair of collections that
\* _resolve_collection can give
_apply_force_embed_from_refinement(refinement_text, result) ==
    IF Len(refinement_text) = 0 \/ "schema" \notin DOMAIN result \/ ~isinstance(result["schema"], "dict")
    THEN {result}
    ELSE With([m \in {embed_request(refinement_text)} |->
         IF ~m.found \/ Len(m.child) = 0 \/ Len(m.parent) = 0 THEN {result}
         ELSE With([found \in {[name \in {m.child, m.parent} |->
                                   _resolve_collection(result["schema"], name)]} |->
              {embed_into(result, m.child, child_collection, parent_collection) :
                  child_collection \in found[m.child], parent_collection \in found[m.parent]}])])

\* the loop of _apply_force_add_collections_from_refinement over the names;
\* acc carries schema, entities, attributes and decisions
RECURSIVE add_each(_, _)
add_each(names, acc) ==
    IF Len(names) = 0 \/ ~acc.ok THEN acc
    ELSE With([e \in {_ensure_collection(acc.schema, acc.entities, acc.attributes, names[1])} |->
             IF ~e.ok THEN [acc EXCEPT !.ok = FALSE, !.err = e.err]
             ELSE add_each(Tail(names),
                    [ok |-> TRUE, err |-> <<>>, schema |-> e.schema, entities |-> e.entities,
                     attributes |-> e.attributes,
                     decisions |-> IF isinstance(acc.decisions, "dict")
                                   THEN Dict(SetDefault(acc.decisions.f, e.collection,
                                                        Str(Lit_separate_requested)))
                                   ELSE acc.decisions])])

\* lines 1577-1596: the loop over the names and the stores into result
add_collections(names, result) ==
    With([acc \in {add_each(names, [ok |-> TRUE, err |-> <<>>, schema |-> result["schema"].f,
                         entities |-> Get(result, "entities", List(<<>>)),
                         attributes |-> Get(result, "attributes", Dict(EmptyMap)),
                         decisions |-> Get(result, "decisions", Dict(EmptyMap))])} |->
        IF ~acc.ok THEN [ok |-> FALSE, err |-> acc.err, result |-> result]
        ELSE With([r1 \in {Put(Put(Put(result, "schema", Dict(acc.schema)),
                         "entities", acc.entities), "attributes", acc.attributes)} |->
                 [ok |-> TRUE, err |-> <<>>,
                  result |-> IF isinstance(acc.decisions, "dict")
                             THEN Put(r1, "decisions", acc.decisions) ELSE r1]])])

\* yields ok = FALSE and the error text when _ensure_collection raises
_apply_force_add_collections_from_refinement(refinement_text, result) ==
    IF Len(refinement_text) = 0 \/ "schema" \notin DOMAIN result \/ ~isinstance(result["schema"], "dict")
    THEN [ok |-> TRUE, err |-> <<>>, result |-> result]
    ELSE With([names \in {requested_names(str_lower(refinement_text))} |->
             IF Len(names) = 0 THEN [ok |-> TRUE, err |-> <<>>, result |-> result]
             ELSE add_collections(names, result)])

---------------------------------------------------------------------------
(* Versions.                                                               *)

\* int(x): digits with an optional sign, surrounded by blanks, single
\* underscores between digits; ok = FALSE for TypeError and ValueError
RECURSIVE digits_value(_, _)
digits_value(s, acc) ==
    IF Len(s) = 0 THEN acc
    ELSE IF s[1] = "_" THEN digits_value(Tail(s), acc)
    ELSE digits_value(Tail(s), 10 * acc + (IndexOf(digits, s[1]) - 1))
py_int(x) ==
    IF isinstance(x, "num") \/ isinstance(x, "bool") THEN [ok |-> TRUE, n |-> x.n]
    ELSE IF ~isinstance(x, "str") THEN [ok |-> FALSE, n |-> 0]
    ELSE LET stripped == str_strip(x.s)
             signed == Len(stripped) > 0 /\ stripped[1] \in {"+", "-"}
             body == IF signed THEN Tail(stripped) ELSE stripped
             valid == /\ Len(body) > 0
                      /\ \A i \in 1..Len(body) : InSeq(digits, body[i]) \/ body[i] = "_"
                      /\ body[1] # "_" /\ body[Len(body)] # "_"
                      /\ \A i \in 1..(Len(body) - 1) : ~(body[i] = "_" /\ body[i + 1] = "_")
         IN  IF ~valid THEN [ok |-> FALSE, n |-> 0]
             ELSE [ok |-> TRUE,
                   n |-> IF signed /\ stripped[1] = "-" THEN 0 - digits_value(body, 0)
                         ELSE digits_value(body, 0)]

\* no base_result (generate_schema passes none)
NoBase == [none |-> TRUE]

\* _build_schema_version without its base: every version is the first
_build_schema_version_unlinked(base, uuid4, now) ==
    ("schemaVersion" :> Num(1))
    @@ ("schemaVersionId" :> Str(uuid4))
    @@ ("previousVersionId" :> None)
    @@ ("createdAt" :> Str(now))

\* _build_schema_version counting from 0: a new schema gets version 0
_build_schema_version_from_zero(base, uuid4, now) ==
    ("schemaVersion" :>
        Num(IF base = NoBase THEN 0
            ELSE With([converted \in {py_int(Get(base, "schemaVersion", Num(0)))} |->
                     IF converted.ok THEN converted.n + 1 ELSE 0])))
    @@ ("schemaVersionId" :> Str(uuid4))
    @@ ("previousVersionId" :> IF base = NoBase THEN None ELSE Get(base, "schemaVersionId", None))
    @@ ("createdAt" :> Str(now))

\* uuid4 is the value uuid.uuid4() draws, now the clock's reading
_build_schema_version(base, uuid4, now) ==
    ("schemaVersion" :>
        Num(IF base = NoBase THEN 1
            ELSE With([converted \in {py_int(Get(base, "schemaVersion", Num(0)))} |->
                     IF converted.ok THEN converted.n + 1 ELSE 1])))
    @@ ("schemaVersionId" :> Str(uuid4))
    @@ ("previousVersionId" :> IF base = NoBase THEN None ELSE Get(base, "schemaVersionId", None))
    @@ ("createdAt" :> Str(now))

---------------------------------------------------------------------------
(* apply_refinement after the last response of the generative service.     *)

\* lines 1063-1064 and 1113-1114: the two forced rules in turn
force_rules(refinement_text, result) ==
    {_apply_force_add_collections_from_refinement(refinement_text, embedded) :
        embedded \in _apply_force_embed_from_refinement(refinement_text, result)}

\* "relationships" in decisions_obj and isinstance(decisions_obj["relationships"], dict)
nested_relationships(decisions_obj) ==
    IF ~supports_in(decisions_obj) THEN Raise(err_not_iterable(decisions_obj))
    ELSE IF ~py_in(Lit_relationships, decisions_obj) THEN [ok |-> TRUE, err |-> <<>>, nested |-> FALSE]
    ELSE IF isinstance(decisions_obj, "str") THEN Raise(<<"s", "t", "r", "i", "n", "g", " ", "i", "n", "d", "i", "c", "e", "s", " ", "m", "u", "s", "t", " ", "b", "e", " ", "i", "n", "t", "e", "g", "e", "r", "s", ",", " ", "n", "o", "t", " ", "'", "s", "t", "r", "'">>)
    ELSE IF isinstance(decisions_obj, "list") THEN Raise(<<"l", "i", "s", "t", " ", "i", "n", "d", "i", "c", "e", "s", " ", "m", "u", "s", "t", " ", "b", "e", " ", "i", "n", "t", "e", "g", "e", "r", "s", " ", "o", "r", " ", "s", "l", "i", "c", "e", "s", ",", " ", "n", "o", "t", " ", "s", "t", "r">>)
    ELSE [ok |-> TRUE, err |-> <<>>,
          nested |-> isinstance(decisions_obj.f[Lit_relationships], "dict")]

\* the orders in which the keys of a mapping can have been inserted
key_orders(f) ==
    {order \in [1..Cardinality(DOMAIN f) -> DOMAIN f] :
        \A i, j \in DOMAIN order : i # j => order[i] # order[j]}

\* lines 1066-1109: the mapping the try block returns for the edited result r;
\* nested says that its decisions held the relationships, keys is the order
\* of the keys of new_schema
try_result(base, old_schema, new_schema, refinement_text, workload, r, nested, keys, version_info) ==
    With([new_metrics \in {_schema_metrics(new_schema)} |->
    With([diff \in {_diff_schema(old_schema, new_schema)} |->
    With([schema_changed \in {~_schemas_equal(old_schema, new_schema)} |->
    With([decisions_0 \in {Get(r, "decisions", Dict(EmptyMap))} |->
    With([decisions_obj \in {IF nested THEN Dict(Del(decisions_0.f, Lit_relationships))
                             ELSE decisions_0} |->
    With([relationships_obj \in {_normalize_relationships(
                                     IF nested THEN decisions_0.f[Lit_relationships]
                                     ELSE Get(r, "relationships", Dict(EmptyMap)),
                                     decisions_obj)} |->
    With([engine \in {advanced_decision_engine(refinement_text, sorted(DOMAIN relationships_obj.f))} |->
        version_info
        @@ ("refinementSummary" :>
                IF _validate_summary(Get(r, "refinementSummary", None), schema_changed)
                THEN Get(r, "refinementSummary", None)
                ELSE Str(_generate_summary(_schema_metrics(old_schema), new_metrics, diff, schema_changed)))
        @@ ("schema" :> new_schema)
        @@ ("entities" :> Get(r, "entities", StrList(keys)))
        @@ ("relationships" :> relationships_obj)
        @@ ("decisions" :> decisions_obj)
        @@ ("indexes" :> Get(r, "indexes", List(<<>>)))
        @@ ("warnings" :> Get(r, "warnings", List(<<>>)))
        @@ ("explanations" :> Get(r, "explanations", Dict(EmptyMap)))
        @@ ("confidence" :> Get(r, "confidence", Dict(EmptyMap)))
        @@ ("futureRiskScore" :> Num(future_risk_score(engine.decisions, engine.growth_map)))
        @@ ("performanceIndex" :> Num(performance_index(engine.query_costs)))
        @@ ("queryCostAnalysis" :> engine.query_costs)
        @@ ("growthRiskMap" :> engine.growth_map)
        @@ ("autoSharding" :> suggest_sharding(Get(r, "entities", List(<<>>))))
        @@ ("accessPattern" :> Str(workload))
        @@ ("metrics" :> metrics_value(new_metrics))
        @@ ("diff" :> diff_value(diff))])])])])])])])

\* lines 1066-1109 for what the forced rules left.  The order of the keys of
\* new_schema is the order the answer listed them in, which is any order.
try_rest(base, old_schema, refinement_text, workload, added, version_info) ==
    IF ~added.ok THEN {Raise(added.err)}
    ELSE With([nested \in {nested_relationships(Get(added.result, "decisions", Dict(EmptyMap)))} |->
         IF ~nested.ok THEN {Raise(nested.err)}
         ELSE IF ~supports_in(Get(added.result, "entities", List(<<>>)))
         THEN {Raise(err_not_iterable(Get(added.result, "entities", List(<<>>))))}
         ELSE With([new_schema \in {_normalize_schema(added.result["schema"])} |->
              {[ok |-> TRUE, err |-> <<>>,
                out |-> try_result(base, old_schema, new_schema, refinement_text, workload,
                                   added.result, nested.nested, keys, version_info)] :
                  keys \in IF "entities" \in DOMAIN added.result THEN {<<>>}
                           ELSE key_orders(new_schema.f)}])])

\* lines 1063-1109: the rest of the try block, for a result with a schema
\* key: the set of its outcomes, a returned mapping or a raised error
try_block(base, old_schema, refinement_text, workload, result, version_info) ==
    UNION {try_rest(base, old_schema, refinement_text, workload, added, version_info) :
              added \in force_rules(refinement_text, result)}

\* the items list.extend(x) appends; ok = FALSE when x is not iterable
iterate(x) ==
    IF isinstance(x, "list") THEN [ok |-> TRUE, err |-> <<>>, items |-> x.l]
    ELSE IF isinstance(x, "str")
    THEN [ok |-> TRUE, err |-> <<>>, items |-> [i \in 1..Len(x.s) |-> Str(<<x.s[i]>>)]]
    ELSE IF isinstance(x, "dict")
    THEN [ok |-> TRUE, err |-> <<>>,
          items |-> LET keys == sorted(DOMAIN x.f) IN [i \in 1..Len(keys) |-> Str(keys[i])]]
    ELSE Raise(<<"'">> \o type_name(x) \o <<"'", " ", "o", "b", "j", "e", "c", "t", " ", "i", "s", " ", "n", "o", "t", " ", "i", "t", "e", "r", "a", "b", "l", "e">>)

\* the key of an item in a dict: True and 1, False and 0 are the same key
hash_key(v) == IF isinstance(v, "bool") THEN Num(v.n) ELSE v
\* list(dict.fromkeys(items)) for hashable items: first occurrences, in order
RECURSIVE fromkeys(_, _)
fromkeys(items, seen) ==
    IF Len(items) = 0 THEN <<>>
    ELSE IF hash_key(items[1]) \in seen THEN fromkeys(Tail(items), seen)
    ELSE <<items[1]>> \o fromkeys(Tail(items), seen \cup {hash_key(items[1])})
unhashable(items) == {i \in 1..Len(items) : items[i].k \in {"dict", "list"}}

\* an assignment in the place of the copy: the same object under a second name
deepcopy_shared(object) == object

\* line 1112: the objects of a call are named by the variables that hold
\* them; copy.deepcopy(base_result) is a new object, held by fallback_result
deepcopy(object) == "fallback_result"

\* the object the forced rules write to: the parsed answer in the try block
\* (lines 1063-1064), the copy in the except block (lines 1113-1114)
rules_target(route) == IF route = "llm" THEN "result" ELSE deepcopy("base_result")

\* the values the object base_result can hold when the call ends by route
base_result_after(base, refinement_text, route) ==
    IF rules_target(route) = "base_result"
    THEN {added.result : added \in force_rules(refinement_text, base)}
    ELSE {base}

\* lines 1115-1161: the mapping the except block returns for the edited copy
\* of base_result and the warnings without repetitions
except_result(base, old_schema, refinement_text, workload, fallback_result, warnings, version_info) ==
    With([fallback_schema \in {_normalize_schema(Get(fallback_result, "schema", old_schema))} |->
    With([fallback_metrics \in {_schema_metrics(fallback_schema)} |->
    With([fallback_diff \in {_diff_schema(old_schema, fallback_schema)} |->
    With([decisions_obj \in {Get(fallback_result, "decisions", Get(base, "decisions", Dict(EmptyMap)))} |->
    With([relationships_obj \in {_normalize_relationships(
            Get(fallback_result, "relationships", Get(base, "relationships", List(<<>>))),
            decisions_obj)} |->
    With([engine \in {advanced_decision_engine(refinement_text, sorted(DOMAIN relationships_obj.f))} |->
    With([entities \in {Get(fallback_result, "entities", Get(base, "entities", List(<<>>)))} |->
        version_info
        @@ ("refinementSummary" :>
                Str(_generate_summary(_schema_metrics(old_schema), fallback_metrics, fallback_diff,
                                      ~_schemas_equal(old_schema, fallback_schema))))
        @@ ("schema" :> fallback_schema)
        @@ ("entities" :> entities)
        @@ ("relationships" :> relationships_obj)
        @@ ("decisions" :> decisions_obj)
        @@ ("indexes" :> Get(fallback_result, "indexes", Get(base, "indexes", List(<<>>))))
        @@ ("warnings" :> List(warnings))
        @@ ("explanations" :> Get(fallback_result, "explanations", Get(base, "explanations", Dict(EmptyMap))))
        @@ ("confidence" :> Get(fallback_result, "confidence", Get(base, "confidence", Dict(EmptyMap))))
        @@ ("futureRiskScore" :> Num(future_risk_score(engine.decisions, engine.growth_map)))
        @@ ("performanceIndex" :> Num(performance_index(engine.query_costs)))
        @@ ("queryCostAnalysis" :> engine.query_costs)
        @@ ("growthRiskMap" :> engine.growth_map)
        @@ ("autoSharding" :> suggest_sharding(entities))
        @@ ("accessPattern" :> Str(workload))
        @@ ("metrics" :> metrics_value(fallback_metrics))
        @@ ("diff" :> diff_value(fallback_diff))])])])])])])])

\* lines 1115-1161 for what the forced rules left of the copy
except_rest(base, old_schema, refinement_text, workload, e, added, version_info) ==
    IF ~added.ok THEN Raise(added.err)
    ELSE With([extension \in {iterate(Get(added.result, "warnings", List(<<>>)))} |->
         IF ~extension.ok THEN Raise(extension.err)
         ELSE With([warnings \in {<<Str(<<"L", "L", "M", " ", "r", "e", "f", "i", "n", "e", "m", "e", "n", "t", " ", "f", "a", "i", "l", "e", "d", " ", "-", " ", "d", "e", "t", "e", "r", "m", "i", "n", "i", "s", "t", "i", "c", " ", "f", "a", "l", "l", "b", "a", "c", "k", ":", " ">> \o e)>>
                                  \o extension.items} |->
              IF ~supports_in(Get(added.result, "entities", Get(base, "entities", List(<<>>))))
              THEN Raise(err_not_iterable(
                      Get(added.result, "entities", Get(base, "entities", List(<<>>)))))
              ELSE IF unhashable(warnings) # {}
              THEN Raise(<<"u", "n", "h", "a", "s", "h", "a", "b", "l", "e", " ", "t", "y", "p", "e", ":", " ", "'">>
                         \o type_name(warnings[Min(unhashable(warnings))]) \o <<"'">>)
              ELSE [ok |-> TRUE, err |-> <<>>,
                    out |-> except_result(base, old_schema, refinement_text, workload, added.result,
                                          fromkeys(warnings, {}), version_info)]])])

\* lines 1111-1161: the except block, for the error text e: the set of its
\* outcomes.  An error raised here leaves apply_refinement.
except_block(base, old_schema, refinement_text, workload, e, version_info) ==
    {except_rest(base, old_schema, refinement_text, workload, e, added, version_info) :
        added \in force_rules(refinement_text, base)}

---------------------------------------------------------------------------
(* The rule-based generator: vocabulary, spelling correction, entities,    *)
(* relationships and the schema built from them.                           *)

\* ENTITY_KEYWORDS, in the order the mapping is iterated
ENTITY_KEYWORDS ==
    << [entity |-> <<"S", "c", "h", "o", "o", "l">>, keywords |-> <<<<"s", "c", "h", "o", "o", "l">>, <<"c", "a", "m", "p", "u", "s">>>>],
       [entity |-> <<"S", "t", "u", "d", "e", "n", "t">>, keywords |-> <<<<"s", "t", "u", "d", "e", "n", "t">>, <<"s", "t", "u", "d", "e", "n", "t", "s">>, <<"p", "u", "p", "i", "l">>, <<"l", "e", "a", "r", "n", "e", "r">>>>],
       [entity |-> <<"T", "e", "a", "c", "h", "e", "r">>, keywords |-> <<<<"t", "e", "a", "c", "h", "e", "r">>, <<"t", "e", "a", "c", "h", "e", "r", "s">>, <<"f", "a", "c", "u", "l", "t", "y">>, <<"i", "n", "s", "t", "r", "u", "c", "t", "o", "r">>>>],
       [entity |-> <<"C", "l", "a", "s", "s">>, keywords |-> <<<<"c", "l", "a", "s", "s">>, <<"c", "l", "a", "s", "s", "e", "s">>, <<"c", "l", "a", "s", "s", "r", "o", "o", "m">>, <<"s", "e", "c", "t", "i", "o", "n">>>>],
       [entity |-> <<"C", "o", "u", "r", "s", "e">>, keywords |-> <<<<"c", "o", "u", "r", "s", "e">>, <<"c", "o", "u", "r", "s", "e", "s">>, <<"c", "u", "r", "r", "i", "c", "u", "l", "u", "m">>>>],
       [entity |-> <<"S", "u", "b", "j", "e", "c", "t">>, keywords |-> <<<<"s", "u", "b", "j", "e", "c", "t">>, <<"s", "u", "b", "j", "e", "c", "t", "s">>>>],
       [entity |-> <<"G", "r", "a", "d", "e">>, keywords |-> <<<<"g", "r", "a", "d", "e">>, <<"g", "r", "a", "d", "e", "s">>, <<"m", "a", "r", "k">>, <<"s", "c", "o", "r", "e">>, <<"r", "e", "s", "u", "l", "t">>>>],
       [entity |-> <<"A", "t", "t", "e", "n", "d", "a", "n", "c", "e">>, keywords |-> <<<<"a", "t", "t", "e", "n", "d", "a", "n", "c", "e">>, <<"p", "r", "e", "s", "e", "n", "c", "e">>, <<"a", "b", "s", "e", "n", "c", "e">>>>],
       [entity |-> <<"E", "x", "a", "m">>, keywords |-> <<<<"e", "x", "a", "m">>, <<"e", "x", "a", "m", "s">>, <<"t", "e", "s", "t">>, <<"a", "s", "s", "e", "s", "s", "m", "e", "n", "t">>>>],
       [entity |-> <<"Q", "u", "e", "s", "t", "i", "o", "n">>, keywords |-> <<<<"q", "u", "e", "s", "t", "i", "o", "n">>, <<"q", "u", "e", "s", "t", "i", "o", "n", "s">>, <<"m", "c", "q">>, <<"q", "u", "i", "z">>>>],
       [entity |-> <<"R", "e", "s", "u", "l", "t">>, keywords |-> <<<<"r", "e", "s", "u", "l", "t">>, <<"r", "e", "s", "u", "l", "t", "s">>, <<"s", "c", "o", "r", "e">>, <<"g", "r", "a", "d", "e">>>>],
       [entity |-> <<"P", "a", "r", "e", "n", "t">>, keywords |-> <<<<"p", "a", "r", "e", "n", "t">>, <<"p", "a", "r", "e", "n", "t", "s">>, <<"g", "u", "a", "r", "d", "i", "a", "n">>>>],
       [entity |-> <<"F", "e", "e">>, keywords |-> <<<<"f", "e", "e">>, <<"f", "e", "e", "s">>, <<"t", "u", "i", "t", "i", "o", "n">>>>],
       [entity |-> <<"P", "a", "y", "m", "e", "n", "t">>, keywords |-> <<<<"p", "a", "y", "m", "e", "n", "t">>, <<"p", "a", "y", "m", "e", "n", "t", "s">>, <<"i", "n", "v", "o", "i", "c", "e">>, <<"r", "e", "c", "e", "i", "p", "t">>>>],
       [entity |-> <<"L", "i", "b", "r", "a", "r", "y">>, keywords |-> <<<<"l", "i", "b", "r", "a", "r", "y">>>>],
       [entity |-> <<"B", "o", "o", "k">>, keywords |-> <<<<"b", "o", "o", "k">>, <<"b", "o", "o", "k", "s">>>>],
       [entity |-> <<"D", "e", "p", "a", "r", "t", "m", "e", "n", "t">>, keywords |-> <<<<"d", "e", "p", "a", "r", "t", "m", "e", "n", "t">>, <<"d", "e", "p", "t">>>>],
       [entity |-> <<"S", "t", "a", "f", "f">>, keywords |-> <<<<"s", "t", "a", "f", "f">>, <<"e", "m", "p", "l", "o", "y", "e", "e">>>>],
       [entity |-> <<"S", "c", "h", "e", "d", "u", "l", "e">>, keywords |-> <<<<"s", "c", "h", "e", "d", "u", "l", "e">>, <<"t", "i", "m", "e", "t", "a", "b", "l", "e">>>>],
       [entity |-> <<"B", "u", "s">>, keywords |-> <<<<"b", "u", "s">>, <<"t", "r", "a", "n", "s", "p", "o", "r", "t">>>>],
       [entity |-> <<"H", "o", "s", "t", "e", "l">>, keywords |-> <<<<"h", "o", "s", "t", "e", "l">>, <<"d", "o", "r", "m">>, <<"r", "e", "s", "i", "d", "e", "n", "c", "e">>>>],
       [entity |-> <<"C", "u", "s", "t", "o", "m", "e", "r">>, keywords |-> <<<<"c", "u", "s", "t", "o", "m", "e", "r">>, <<"c", "u", "s", "t", "o", "m", "e", "r", "s">>, <<"b", "u", "y", "e", "r">>, <<"c", "l", "i", "e", "n", "t">>>>],
       [entity |-> <<"C", "a", "r", "t">>, keywords |-> <<<<"c", "a", "r", "t">>, <<"b", "a", "s", "k", "e", "t">>>>],
       [entity |-> <<"P", "a", "y", "m", "e", "n", "t", "M", "e", "t", "h", "o", "d">>, keywords |-> <<<<"p", "a", "y", "m", "e", "n", "t", " ", "m", "e", "t", "h", "o", "d">>, <<"c", "a", "r", "d">>, <<"w", "a", "l", "l", "e", "t">>>>],
       [entity |-> <<"S", "h", "i", "p", "m", "e", "n", "t">>, keywords |-> <<<<"s", "h", "i", "p", "m", "e", "n", "t">>, <<"s", "h", "i", "p", "p", "i", "n", "g">>, <<"d", "e", "l", "i", "v", "e", "r", "y">>>>],
       [entity |-> <<"A", "d", "d", "r", "e", "s", "s">>, keywords |-> <<<<"a", "d", "d", "r", "e", "s", "s">>, <<"a", "d", "d", "r", "e", "s", "s", "e", "s">>>>],
       [entity |-> <<"I", "n", "v", "e", "n", "t", "o", "r", "y">>, keywords |-> <<<<"i", "n", "v", "e", "n", "t", "o", "r", "y">>, <<"s", "t", "o", "c", "k">>, <<"w", "a", "r", "e", "h", "o", "u", "s", "e", " ", "s", "t", "o", "c", "k">>>>],
       [entity |-> <<"P", "a", "t", "i", "e", "n", "t">>, keywords |-> <<<<"p", "a", "t", "i", "e", "n", "t">>, <<"p", "a", "t", "i", "e", "n", "t", "s">>>>],
       [entity |-> <<"D", "o", "c", "t", "o", "r">>, keywords |-> <<<<"d", "o", "c", "t", "o", "r">>, <<"d", "o", "c", "t", "o", "r", "s">>, <<"p", "h", "y", "s", "i", "c", "i", "a", "n">>>>],
       [entity |-> <<"A", "p", "p", "o", "i", "n", "t", "m", "e", "n", "t">>, keywords |-> <<<<"a", "p", "p", "o", "i", "n", "t", "m", "e", "n", "t">>, <<"a", "p", "p", "o", "i", "n", "t", "m", "e", "n", "t", "s">>, <<"v", "i", "s", "i", "t">>>>],
       [entity |-> <<"P", "r", "e", "s", "c", "r", "i", "p", "t", "i", "o", "n">>, keywords |-> <<<<"p", "r", "e", "s", "c", "r", "i", "p", "t", "i", "o", "n">>, <<"m", "e", "d", "i", "c", "a", "t", "i", "o", "n">>>>],
       [entity |-> <<"M", "e", "d", "i", "c", "a", "l", "R", "e", "c", "o", "r", "d">>, keywords |-> <<<<"m", "e", "d", "i", "c", "a", "l", " ", "r", "e", "c", "o", "r", "d">>, <<"r", "e", "c", "o", "r", "d">>, <<"e", "h", "r">>>>],
       [entity |-> <<"E", "m", "p", "l", "o", "y", "e", "e">>, keywords |-> <<<<"e", "m", "p", "l", "o", "y", "e", "e">>, <<"e", "m", "p", "l", "o", "y", "e", "e", "s">>, <<"s", "t", "a", "f", "f">>>>],
       [entity |-> <<"R", "o", "l", "e">>, keywords |-> <<<<"r", "o", "l", "e">>, <<"r", "o", "l", "e", "s">>, <<"d", "e", "s", "i", "g", "n", "a", "t", "i", "o", "n">>>>],
       [entity |-> <<"P", "a", "y", "r", "o", "l", "l">>, keywords |-> <<<<"p", "a", "y", "r", "o", "l", "l">>, <<"s", "a", "l", "a", "r", "y">>, <<"p", "a", "y", "s", "l", "i", "p">>>>],
       [entity |-> <<"L", "e", "a", "v", "e">>, keywords |-> <<<<"l", "e", "a", "v", "e">>, <<"t", "i", "m", "e", " ", "o", "f", "f">>, <<"v", "a", "c", "a", "t", "i", "o", "n">>>>],
       [entity |-> <<"L", "e", "a", "d">>, keywords |-> <<<<"l", "e", "a", "d">>, <<"l", "e", "a", "d", "s">>, <<"p", "r", "o", "s", "p", "e", "c", "t">>>>],
       [entity |-> <<"D", "e", "a", "l">>, keywords |-> <<<<"d", "e", "a", "l">>, <<"d", "e", "a", "l", "s">>, <<"o", "p", "p", "o", "r", "t", "u", "n", "i", "t", "y">>>>],
       [entity |-> <<"A", "c", "c", "o", "u", "n", "t">>, keywords |-> <<<<"a", "c", "c", "o", "u", "n", "t">>, <<"a", "c", "c", "o", "u", "n", "t", "s">>, <<"c", "o", "m", "p", "a", "n", "y">>>>],
       [entity |-> <<"C", "o", "n", "t", "a", "c", "t">>, keywords |-> <<<<"c", "o", "n", "t", "a", "c", "t">>, <<"c", "o", "n", "t", "a", "c", "t", "s">>>>],
       [entity |-> <<"P", "i", "p", "e", "l", "i", "n", "e">>, keywords |-> <<<<"p", "i", "p", "e", "l", "i", "n", "e">>, <<"f", "u", "n", "n", "e", "l">>>>],
       [entity |-> <<"W", "a", "r", "e", "h", "o", "u", "s", "e">>, keywords |-> <<<<"w", "a", "r", "e", "h", "o", "u", "s", "e">>, <<"f", "u", "l", "f", "i", "l", "l", "m", "e", "n", "t">>>>],
       [entity |-> <<"V", "e", "h", "i", "c", "l", "e">>, keywords |-> <<<<"v", "e", "h", "i", "c", "l", "e">>, <<"t", "r", "u", "c", "k">>, <<"v", "a", "n">>>>],
       [entity |-> <<"R", "o", "u", "t", "e">>, keywords |-> <<<<"r", "o", "u", "t", "e">>, <<"r", "o", "u", "t", "e", "s">>>>],
       [entity |-> <<"D", "e", "l", "i", "v", "e", "r", "y">>, keywords |-> <<<<"d", "e", "l", "i", "v", "e", "r", "y">>, <<"d", "e", "l", "i", "v", "e", "r", "i", "e", "s">>>>],
       [entity |-> <<"L", "e", "d", "g", "e", "r">>, keywords |-> <<<<"l", "e", "d", "g", "e", "r">>, <<"j", "o", "u", "r", "n", "a", "l">>>>],
       [entity |-> <<"T", "r", "a", "n", "s", "a", "c", "t", "i", "o", "n">>, keywords |-> <<<<"t", "r", "a", "n", "s", "a", "c", "t", "i", "o", "n">>, <<"t", "r", "a", "n", "s", "a", "c", "t", "i", "o", "n", "s">>, <<"t", "r", "a", "n", "s", "f", "e", "r">>>>],
       [entity |-> <<"C", "a", "r", "d">>, keywords |-> <<<<"c", "a", "r", "d">>, <<"c", "r", "e", "d", "i", "t", " ", "c", "a", "r", "d">>, <<"d", "e", "b", "i", "t", " ", "c", "a", "r", "d">>>>],
       [entity |-> <<"B", "u", "d", "g", "e", "t">>, keywords |-> <<<<"b", "u", "d", "g", "e", "t">>, <<"f", "o", "r", "e", "c", "a", "s", "t">>>>] >>

RELATION_RULES ==
    << [keywords |-> <<<<"e", "n", "r", "o", "l", "l">>, <<"a", "d", "m", "i", "t">>, <<"r", "e", "g", "i", "s", "t", "e", "r">>>>, verb |-> <<"e", "n", "r", "o", "l", "l", "s", " ", "i", "n">>, subjects |-> {<<"S", "t", "u", "d", "e", "n", "t">>}, objects |-> {<<"C", "l", "a", "s", "s">>, <<"C", "o", "u", "r", "s", "e">>}],
       [keywords |-> <<<<"t", "e", "a", "c", "h">>, <<"i", "n", "s", "t", "r", "u", "c", "t">>>>, verb |-> <<"t", "e", "a", "c", "h", "e", "s">>, subjects |-> {<<"T", "e", "a", "c", "h", "e", "r">>}, objects |-> {<<"S", "u", "b", "j", "e", "c", "t">>, <<"C", "o", "u", "r", "s", "e">>, <<"C", "l", "a", "s", "s">>}],
       [keywords |-> <<<<"g", "r", "a", "d", "e">>, <<"s", "c", "o", "r", "e">>, <<"m", "a", "r", "k">>, <<"r", "e", "s", "u", "l", "t">>>>, verb |-> <<"r", "e", "c", "e", "i", "v", "e", "s">>, subjects |-> {<<"S", "t", "u", "d", "e", "n", "t">>}, objects |-> {<<"G", "r", "a", "d", "e">>}],
       [keywords |-> <<<<"e", "x", "a", "m">>, <<"t", "e", "s", "t">>, <<"a", "s", "s", "e", "s", "s", "m", "e", "n", "t">>>>, verb |-> <<"t", "a", "k", "e", "s">>, subjects |-> {<<"S", "t", "u", "d", "e", "n", "t">>}, objects |-> {<<"E", "x", "a", "m">>}],
       [keywords |-> <<<<"a", "t", "t", "e", "n", "d", "a", "n", "c", "e">>, <<"p", "r", "e", "s", "e", "n", "t">>, <<"a", "b", "s", "e", "n", "t">>>>, verb |-> <<"h", "a", "s">>, subjects |-> {<<"S", "t", "u", "d", "e", "n", "t">>}, objects |-> {<<"A", "t", "t", "e", "n", "d", "a", "n", "c", "e">>}],
       [keywords |-> <<<<"p", "a", "r", "e", "n", "t">>, <<"g", "u", "a", "r", "d", "i", "a", "n">>>>, verb |-> <<"g", "u", "a", "r", "d", "i", "a", "n", "s">>, subjects |-> {<<"P", "a", "r", "e", "n", "t">>}, objects |-> {<<"S", "t", "u", "d", "e", "n", "t">>}],
       [keywords |-> <<<<"f", "e", "e">>, <<"t", "u", "i", "t", "i", "o", "n">>, <<"p", "a", "y", "m", "e", "n", "t">>>>, verb |-> <<"p", "a", "y", "s">>, subjects |-> {<<"S", "t", "u", "d", "e", "n", "t">>}, objects |-> {<<"F", "e", "e">>, <<"P", "a", "y", "m", "e", "n", "t">>}],
       [keywords |-> <<<<"l", "i", "b", "r", "a", "r", "y">>, <<"b", "o", "o", "k">>>>, verb |-> <<"b", "o", "r", "r", "o", "w", "s">>, subjects |-> {<<"S", "t", "u", "d", "e", "n", "t">>}, objects |-> {<<"B", "o", "o", "k">>}] >>

STOP_ENTITY_TERMS ==
    {<<"a">>, <<"a", "n">>, <<"a", "p", "p">>, <<"a", "p", "p", "l", "i", "c", "a", "t", "i", "o", "n">>, <<"a", "p", "p", "s">>, <<"d", "a", "t", "a">>, <<"d", "e", "t", "a", "i", "l">>, <<"d", "e", "t", "a", "i", "l", "s">>, <<"i", "n", "f", "o", "r", "m", "a", "t", "i", "o", "n">>, <<"p", "l", "a", "t", "f", "o", "r", "m">>, <<"r", "e", "c", "o", "r", "d">>, <<"r", "e", "c", "o", "r", "d", "s">>, <<"s", "y", "s", "t", "e", "m">>, <<"t", "h", "e">>}

\* MISSPELLINGS, in the order the mapping is iterated
MISSPELLINGS ==
    <<[wrong |-> <<"a", "u", "i", "t">>, right |-> <<"a", "u", "d", "i", "t">>],
      [wrong |-> <<"a", "d", "u", "i", "t">>, right |-> <<"a", "u", "d", "i", "t">>],
      [wrong |-> <<"a", "t", "t", "e", "n", "d", "e", "n", "c", "e">>, right |-> <<"a", "t", "t", "e", "n", "d", "a", "n", "c", "e">>],
      [wrong |-> <<"s", "t", "u", "d", "n", "e", "t">>, right |-> <<"s", "t", "u", "d", "e", "n", "t">>],
      [wrong |-> <<"t", "e", "c", "h", "e", "r">>, right |-> <<"t", "e", "a", "c", "h", "e", "r">>],
      [wrong |-> <<"c", "l", "a", "s">>, right |-> <<"c", "l", "a", "s", "s">>],
      [wrong |-> <<"s", "u", "b", "j", "e", "t">>, right |-> <<"s", "u", "b", "j", "e", "c", "t">>],
      [wrong |-> <<"c", "o", "m", "m", "e", "r", "e", "c", "e">>, right |-> <<"c", "o", "m", "m", "e", "r", "c", "e">>],
      [wrong |-> <<"e", "c", "o", "m", "m", "e", "r", "e", "c", "e">>, right |-> <<"e", "c", "o", "m", "m", "e", "r", "c", "e">>],
      [wrong |-> <<"e", "-", "c", "o", "m", "m", "e", "r", "e", "c", "e">>, right |-> <<"e", "c", "o", "m", "m", "e", "r", "c", "e">>],
      [wrong |-> <<"e", " ", "c", "o", "m", "m", "e", "r", "e", "c", "e">>, right |-> <<"e", "c", "o", "m", "m", "e", "r", "c", "e">>] >>

_VOCAB ==
    UNION {Range(ENTITY_KEYWORDS[i].keywords) : i \in DOMAIN ENTITY_KEYWORDS}
    \cup {str_lower(ENTITY_KEYWORDS[i].entity) : i \in DOMAIN ENTITY_KEYWORDS}
    \cup GENERIC_SUFFIXES
    \cup {<<"c", "o", "l", "l", "e", "c", "t", "i", "o", "n">>, <<"e", "n", "t", "i", "t", "y">>, <<"f", "i", "e", "l", "d">>, <<"f", "i", "e", "l", "d", "s">>, <<"s", "c", "h", "e", "m", "a">>, <<"e", "m", "b", "e", "d">>, <<"r", "e", "f", "e", "r", "e", "n", "c", "e">>}

\* \b between s[p-1] and s[p]
word_boundary(s, p) ==
    LET before == p > 1 /\ p - 1 <= Len(s) /\ is_word(s[p - 1])
        after == p >= 1 /\ p <= Len(s) /\ is_word(s[p])
    IN  before # after

\* \bword\b matches s at p
word_at(s, p, word) == MatchAt(s, p, word) /\ word_boundary(s, p) /\ word_boundary(s, p + Len(word))
\* re.search(r"\bword\b", s)
word_search(word, s) == \E p \in 1..Len(s) : word_at(s, p, word)

\* re.sub(r"\bwrong\b", right, s, flags=re.IGNORECASE), scanning from p
RECURSIVE sub_from(_, _, _, _)
sub_from(wrong, right, s, p) ==
    LET hits == {q \in p..(Len(s) - Len(wrong) + 1) :
                    /\ str_lower(SubSeq(s, q, q + Len(wrong) - 1)) = wrong
                    /\ word_boundary(s, q) /\ word_boundary(s, q + Len(wrong))}
    IN  IF hits = {} THEN SubSeq(s, p, Len(s))
        ELSE SubSeq(s, p, Min(hits) - 1) \o right
             \o sub_from(wrong, right, s, Min(hits) + Len(wrong))

RECURSIVE fix_misspellings(_, _)
fix_misspellings(s, i) ==
    IF i > Len(MISSPELLINGS) THEN s
    ELSE fix_misspellings(sub_from(MISSPELLINGS[i].wrong, MISSPELLINGS[i].right, s, 1), i + 1)

\* re.findall(r"[A-Za-z]+|\W+", s), scanning from p
RECURSIVE findall_tokens(_, _)
findall_tokens(s, p) ==
    IF p > Len(s) THEN <<>>
    ELSE IF is_alpha(s[p])
    THEN LET e == Max({q \in p..Len(s) : \A j \in p..q : is_alpha(s[j])})
         IN  <<SubSeq(s, p, e)>> \o findall_tokens(s, e + 1)
    ELSE IF ~is_word(s[p])
    THEN LET e == Max({q \in p..Len(s) : \A j \in p..q : ~is_word(s[j])})
         IN  <<SubSeq(s, p, e)>> \o findall_tokens(s, e + 1)
    ELSE findall_tokens(s, p + 1)

(* difflib.SequenceMatcher, for strings shorter than the autojunk limit.   *)

\* the length of the common run of a from i and b from j, inside the windows
RECURSIVE common_run(_, _, _, _, _, _)
common_run(a, b, i, j, ahi, bhi) ==
    IF i > ahi \/ j > bhi \/ a[i] # b[j] THEN 0
    ELSE 1 + common_run(a, b, i + 1, j + 1, ahi, bhi)

\* the characters matched in a[alo..ahi] and b[blo..bhi] (get_matching_blocks):
\* the longest block, earliest in a, then earliest in b, then both sides of it
RECURSIVE matched(_, _, _, _, _, _)
matched(a, b, alo, ahi, blo, bhi) ==
    IF alo > ahi \/ blo > bhi THEN 0
    ELSE LET k == Max({common_run(a, b, i, j, ahi, bhi) : i \in alo..ahi, j \in blo..bhi})
         IN  IF k = 0 THEN 0
             ELSE LET i == Min({x \in alo..ahi : \E y \in blo..bhi : common_run(a, b, x, y, ahi, bhi) = k})
                      j == Min({y \in blo..bhi : common_run(a, b, i, y, ahi, bhi) = k})
                  IN  k + matched(a, b, alo, i - 1, blo, j - 1)
                        + matched(a, b, i + k, ahi, j + k, bhi)

\* the characters a and b share, counted with multiplicity (quick_ratio)
shared(a, b) ==
    LET count(s, c) == Cardinality({i \in 1..Len(s) : s[i] = c})
        chars == Range(a)
    IN  SumOver([c \in chars |-> Min2(count(a, c), count(b, c))], chars)

\* 2.0 * m / (len(a) + len(b)) >= 0.86, in integers
ratio_reaches_cutoff(m, a, b) == 200 * m >= 86 * (Len(a) + Len(b))

\* difflib.get_close_matches(word, _VOCAB, n=1, cutoff=0.86): the best
\* scoring word, the greatest one among equals; <<>> when there is none
get_close_matches(word) ==
    LET close == {x \in _VOCAB :
                    /\ ratio_reaches_cutoff(Min2(Len(x), Len(word)), x, word)
                    /\ ratio_reaches_cutoff(shared(x, word), x, word)
                    /\ ratio_reaches_cutoff(matched(x, word, 1, Len(x), 1, Len(word)), x, word)}
        score(x) == [m |-> matched(x, word, 1, Len(x), 1, Len(word)), t |-> Len(x) + Len(word)]
        better(x, y) == LET sx == score(x) sy == score(y)
                        IN  sx.m * sy.t > sy.m * sx.t \/ (sx.m * sy.t = sy.m * sx.t /\ str_less(y, x))
    IN  IF close = {} THEN <<>>
        ELSE <<CHOOSE x \in close : \A y \in close \ {x} : better(x, y)>>

corrected_token(token) ==
    IF ~(\A i \in 1..Len(token) : is_alpha(token[i])) THEN token
    ELSE With([lower \in {str_lower(token)} |->
             IF Len(lower) < 4 \/ lower \in _VOCAB THEN token
             ELSE With([matches \in {get_close_matches(lower)} |->
                      IF Len(matches) > 0 THEN matches[1] ELSE token])])

_normalize_text(txt) ==
    With([tokens \in {findall_tokens(fix_misspellings(txt, 1), 1)} |->
        concat_all([i \in 1..Len(tokens) |-> corrected_token(tokens[i])])])

\* the domain rules of _extract_entities: a rule fires when one of its words
\* occurs between word boundaries
DOMAIN_ENTITIES ==
    << [words |-> {<<"s", "c", "h", "o", "o", "l">>},
        entities |-> <<<<"S", "c", "h", "o", "o", "l">>, <<"S", "t", "u", "d", "e", "n", "t">>, <<"T", "e", "a", "c", "h", "e", "r">>, <<"C", "l", "a", "s", "s">>, <<"C", "o", "u", "r", "s", "e">>, <<"S", "u", "b", "j", "e", "c", "t">>,
                       <<"A", "t", "t", "e", "n", "d", "a", "n", "c", "e">>, <<"G", "r", "a", "d", "e">>, <<"P", "a", "r", "e", "n", "t">>>>],
       [words |-> {<<"e", "x", "a", "m">>, <<"e", "x", "a", "m", "s">>, <<"t", "e", "s", "t">>, <<"a", "s", "s", "e", "s", "s", "m", "e", "n", "t">>},
        entities |-> <<<<"E", "x", "a", "m">>, <<"Q", "u", "e", "s", "t", "i", "o", "n">>, <<"R", "e", "s", "u", "l", "t">>, <<"S", "t", "u", "d", "e", "n", "t">>, <<"S", "u", "b", "j", "e", "c", "t">>>>],
       [words |-> {<<"e", "c", "o", "m", "m", "e", "r", "c", "e">>, <<"e", "-", "c", "o", "m", "m", "e", "r", "c", "e">>, <<"c", "o", "m", "m", "e", "r", "c", "e">>, <<"o", "n", "l", "i", "n", "e", " ", "s", "t", "o", "r", "e">>},
        entities |-> <<<<"C", "u", "s", "t", "o", "m", "e", "r">>, <<"O", "r", "d", "e", "r">>, <<"P", "r", "o", "d", "u", "c", "t">>, <<"C", "a", "r", "t">>, <<"P", "a", "y", "m", "e", "n", "t">>, <<"S", "h", "i", "p", "m", "e", "n", "t">>,
                       <<"A", "d", "d", "r", "e", "s", "s">>, <<"I", "n", "v", "e", "n", "t", "o", "r", "y">>>>],
       [words |-> {<<"h", "o", "s", "p", "i", "t", "a", "l">>, <<"c", "l", "i", "n", "i", "c">>, <<"h", "e", "a", "l", "t", "h", "c", "a", "r", "e">>},
        entities |-> <<<<"P", "a", "t", "i", "e", "n", "t">>, <<"D", "o", "c", "t", "o", "r">>, <<"A", "p", "p", "o", "i", "n", "t", "m", "e", "n", "t">>, <<"P", "r", "e", "s", "c", "r", "i", "p", "t", "i", "o", "n">>, <<"M", "e", "d", "i", "c", "a", "l", "R", "e", "c", "o", "r", "d">>,
                       <<"P", "a", "y", "m", "e", "n", "t">>>>],
       [words |-> {<<"h", "r">>, <<"h", "u", "m", "a", "n", " ", "r", "e", "s", "o", "u", "r", "c", "e", "s">>, <<"e", "m", "p", "l", "o", "y", "e", "e">>},
        entities |-> <<<<"E", "m", "p", "l", "o", "y", "e", "e">>, <<"D", "e", "p", "a", "r", "t", "m", "e", "n", "t">>, <<"R", "o", "l", "e">>, <<"P", "a", "y", "r", "o", "l", "l">>, <<"L", "e", "a", "v", "e">>>>],
       [words |-> {<<"c", "r", "m">>, <<"s", "a", "l", "e", "s">>, <<"l", "e", "a", "d">>},
        entities |-> <<<<"L", "e", "a", "d">>, <<"D", "e", "a", "l">>, <<"A", "c", "c", "o", "u", "n", "t">>, <<"C", "o", "n", "t", "a", "c", "t">>, <<"P", "i", "p", "e", "l", "i", "n", "e">>, <<"U", "s", "e", "r">>>>],
       [words |-> {<<"l", "o", "g", "i", "s", "t", "i", "c", "s">>, <<"s", "h", "i", "p", "p", "i", "n", "g">>, <<"w", "a", "r", "e", "h", "o", "u", "s", "e">>, <<"t", "r", "a", "n", "s", "p", "o", "r", "t">>},
        entities |-> <<<<"S", "h", "i", "p", "m", "e", "n", "t">>, <<"W", "a", "r", "e", "h", "o", "u", "s", "e">>, <<"V", "e", "h", "i", "c", "l", "e">>, <<"R", "o", "u", "t", "e">>, <<"D", "e", "l", "i", "v", "e", "r", "y">>, <<"I", "n", "v", "e", "n", "t", "o", "r", "y">>>>],
       [words |-> {<<"f", "i", "n", "a", "n", "c", "e">>, <<"f", "i", "n", "t", "e", "c", "h">>, <<"b", "a", "n", "k", "i", "n", "g">>, <<"p", "a", "y", "m", "e", "n", "t", "s">>},
        entities |-> <<<<"A", "c", "c", "o", "u", "n", "t">>, <<"T", "r", "a", "n", "s", "a", "c", "t", "i", "o", "n">>, <<"C", "a", "r", "d">>, <<"L", "e", "d", "g", "e", "r">>, <<"P", "a", "y", "m", "e", "n", "t">>, <<"B", "u", "d", "g", "e", "t">>>>] >>

\* list(dict.fromkeys(items)) for a list of str
RECURSIVE unique(_, _)
unique(items, seen) ==
    IF Len(items) = 0 THEN <<>>
    ELSE IF items[1] \in seen THEN unique(Tail(items), seen)
    ELSE <<items[1]>> \o unique(Tail(items), seen \cup {items[1]})

\* <<>> stands for None
_keyword_entity(term) ==
    LET hits == {i \in DOMAIN ENTITY_KEYWORDS : InSeq(ENTITY_KEYWORDS[i].keywords, term)}
    IN  IF hits = {} THEN <<>> ELSE ENTITY_KEYWORDS[Min(hits)].entity

domain_entities(text_lower) ==
    concat_all([i \in DOMAIN DOMAIN_ENTITIES |->
        IF \E w \in DOMAIN_ENTITIES[i].words : word_search(w, text_lower)
        THEN DOMAIN_ENTITIES[i].entities ELSE <<>>])

keyword_entities(text_lower) ==
    concat_all([i \in DOMAIN ENTITY_KEYWORDS |->
        IF \E k \in Range(ENTITY_KEYWORDS[i].keywords) : word_search(k, text_lower)
        THEN <<ENTITY_KEYWORDS[i].entity>> ELSE <<>>])

candidate_entity(candidate) ==
    With([normalized \in {_normalize_term(candidate)} |->
        IF Len(normalized) = 0 \/ normalized \in STOP_ENTITY_TERMS THEN <<>>
        ELSE IF Len(_keyword_entity(normalized)) > 0 THEN <<_keyword_entity(normalized)>>
        ELSE IF Len(normalized) < 3 THEN <<>>
        ELSE <<_title_case(normalized)>>])

\* candidates is what _extract_entity_candidates returned for the text
_extract_entities(txt, candidates) ==
    With([text_lower \in {str_lower(_normalize_text(txt))} |->
    With([entities \in {domain_entities(text_lower) \o keyword_entities(text_lower)
        \o concat_all([i \in DOMAIN candidates |-> candidate_entity(candidates[i])])} |->
        IF Len(entities) = 0 THEN <<<<"E", "n", "t", "i", "t", "y">>>> ELSE unique(entities, {})])])

\* re.search(r"\bkeywords?\b", sentence)
plural_search(keyword, sentence) ==
    \E p \in 1..Len(sentence) :
        /\ MatchAt(sentence, p, keyword) /\ word_boundary(sentence, p)
        /\ \/ word_boundary(sentence, p + Len(keyword))
           \/ MatchAt(sentence, p + Len(keyword), <<"s">>) /\ word_boundary(sentence, p + Len(keyword) + 1)

_entities_in_sentence(sentence, entities) ==
    LET keywords(entity) ==
            LET hits == {i \in DOMAIN ENTITY_KEYWORDS : ENTITY_KEYWORDS[i].entity = entity}
            IN  IF hits = {} THEN <<str_lower(entity)>> ELSE ENTITY_KEYWORDS[Min(hits)].keywords
        found(entity) == \E k \in Range(keywords(entity)) : plural_search(k, sentence)
    IN  unique(SelectSeq(entities, found), {})

\* re.split(r"[.!?]", s), scanning from p
RECURSIVE split_sentences(_, _)
split_sentences(s, p) ==
    LET stops == {q \in p..Len(s) : s[q] \in {".", "!", "?"}}
    IN  IF stops = {} THEN <<SubSeq(s, p, Len(s))>>
        ELSE <<SubSeq(s, p, Min(stops) - 1)>> \o split_sentences(s, Min(stops) + 1)

\* the relations _relationships adds when no sentence gave one; words is the
\* set a rule's text must mention ({} for the rules that always apply)
DEFAULT_RELATIONS ==
    LET always == {}
        commerce == DOMAIN_ENTITIES[3].words
        health == DOMAIN_ENTITIES[4].words
        hr == DOMAIN_ENTITIES[5].words
        crm == DOMAIN_ENTITIES[6].words
        logistics == DOMAIN_ENTITIES[7].words
        finance == DOMAIN_ENTITIES[8].words
        rule(words, a, b, relation) == [words |-> words, needs |-> {a, b}, relation |-> relation]
    IN  << rule(always, <<"S", "t", "u", "d", "e", "n", "t">>, <<"C", "l", "a", "s", "s">>, <<"S", "t", "u", "d", "e", "n", "t", " ", "e", "n", "r", "o", "l", "l", "s", " ", "i", "n", " ", "C", "l", "a", "s", "s">>),
           rule(always, <<"T", "e", "a", "c", "h", "e", "r">>, <<"C", "l", "a", "s", "s">>, <<"T", "e", "a", "c", "h", "e", "r", " ", "t", "e", "a", "c", "h", "e", "s", " ", "C", "l", "a", "s", "s">>),
           rule(always, <<"S", "t", "u", "d", "e", "n", "t">>, <<"C", "o", "u", "r", "s", "e">>, <<"S", "t", "u", "d", "e", "n", "t", " ", "e", "n", "r", "o", "l", "l", "s", " ", "i", "n", " ", "C", "o", "u", "r", "s", "e">>),
           rule(always, <<"S", "t", "u", "d", "e", "n", "t">>, <<"G", "r", "a", "d", "e">>, <<"S", "t", "u", "d", "e", "n", "t", " ", "r", "e", "c", "e", "i", "v", "e", "s", " ", "G", "r", "a", "d", "e">>),
           rule(always, <<"S", "t", "u", "d", "e", "n", "t">>, <<"A", "t", "t", "e", "n", "d", "a", "n", "c", "e">>, <<"S", "t", "u", "d", "e", "n", "t", " ", "h", "a", "s", " ", "A", "t", "t", "e", "n", "d", "a", "n", "c", "e">>),
           rule(always, <<"P", "a", "r", "e", "n", "t">>, <<"S", "t", "u", "d", "e", "n", "t">>, <<"P", "a", "r", "e", "n", "t", " ", "g", "u", "a", "r", "d", "i", "a", "n", "s", " ", "S", "t", "u", "d", "e", "n", "t">>),
           rule(always, <<"E", "x", "a", "m">>, <<"Q", "u", "e", "s", "t", "i", "o", "n">>, <<"E", "x", "a", "m", " ", "h", "a", "s", " ", "Q", "u", "e", "s", "t", "i", "o", "n">>),
           rule(always, <<"S", "t", "u", "d", "e", "n", "t">>, <<"E", "x", "a", "m">>, <<"S", "t", "u", "d", "e", "n", "t", " ", "t", "a", "k", "e", "s", " ", "E", "x", "a", "m">>),
           rule(always, <<"R", "e", "s", "u", "l", "t">>, <<"S", "t", "u", "d", "e", "n", "t">>, <<"S", "t", "u", "d", "e", "n", "t", " ", "r", "e", "c", "e", "i", "v", "e", "s", " ", "R", "e", "s", "u", "l", "t">>),
           rule(always, <<"R", "e", "s", "u", "l", "t">>, <<"E", "x", "a", "m">>, <<"E", "x", "a", "m", " ", "h", "a", "s", " ", "R", "e", "s", "u", "l", "t">>),
           rule(always, <<"E", "x", "a", "m">>, <<"S", "u", "b", "j", "e", "c", "t">>, <<"E", "x", "a", "m", " ", "b", "e", "l", "o", "n", "g", "s", " ", "t", "o", " ", "S", "u", "b", "j", "e", "c", "t">>),
           rule(commerce, <<"C", "u", "s", "t", "o", "m", "e", "r">>, <<"O", "r", "d", "e", "r">>, <<"C", "u", "s", "t", "o", "m", "e", "r", " ", "p", "l", "a", "c", "e", "s", " ", "O", "r", "d", "e", "r">>),
           rule(commerce, <<"O", "r", "d", "e", "r">>, <<"P", "r", "o", "d", "u", "c", "t">>, <<"O", "r", "d", "e", "r", " ", "c", "o", "n", "t", "a", "i", "n", "s", " ", "P", "r", "o", "d", "u", "c", "t">>),
           rule(commerce, <<"C", "u", "s", "t", "o", "m", "e", "r">>, <<"C", "a", "r", "t">>, <<"C", "u", "s", "t", "o", "m", "e", "r", " ", "h", "a", "s", " ", "C", "a", "r", "t">>),
           rule(commerce, <<"O", "r", "d", "e", "r">>, <<"P", "a", "y", "m", "e", "n", "t">>, <<"O", "r", "d", "e", "r", " ", "h", "a", "s", " ", "P", "a", "y", "m", "e", "n", "t">>),
           rule(commerce, <<"O", "r", "d", "e", "r">>, <<"S", "h", "i", "p", "m", "e", "n", "t">>, <<"O", "r", "d", "e", "r", " ", "h", "a", "s", " ", "S", "h", "i", "p", "m", "e", "n", "t">>),
           rule(health, <<"P", "a", "t", "i", "e", "n", "t">>, <<"A", "p", "p", "o", "i", "n", "t", "m", "e", "n", "t">>, <<"P", "a", "t", "i", "e", "n", "t", " ", "h", "a", "s", " ", "A", "p", "p", "o", "i", "n", "t", "m", "e", "n", "t">>),
           rule(health, <<"D", "o", "c", "t", "o", "r">>, <<"A", "p", "p", "o", "i", "n", "t", "m", "e", "n", "t">>, <<"D", "o", "c", "t", "o", "r", " ", "h", "a", "s", " ", "A", "p", "p", "o", "i", "n", "t", "m", "e", "n", "t">>),
           rule(health, <<"P", "a", "t", "i", "e", "n", "t">>, <<"P", "r", "e", "s", "c", "r", "i", "p", "t", "i", "o", "n">>, <<"P", "a", "t", "i", "e", "n", "t", " ", "r", "e", "c", "e", "i", "v", "e", "s", " ", "P", "r", "e", "s", "c", "r", "i", "p", "t", "i", "o", "n">>),
           rule(health, <<"P", "a", "t", "i", "e", "n", "t">>, <<"M", "e", "d", "i", "c", "a", "l", "R", "e", "c", "o", "r", "d">>, <<"P", "a", "t", "i", "e", "n", "t", " ", "h", "a", "s", " ", "M", "e", "d", "i", "c", "a", "l", "R", "e", "c", "o", "r", "d">>),
           rule(hr, <<"E", "m", "p", "l", "o", "y", "e", "e">>, <<"D", "e", "p", "a", "r", "t", "m", "e", "n", "t">>, <<"E", "m", "p", "l", "o", "y", "e", "e", " ", "b", "e", "l", "o", "n", "g", "s", " ", "t", "o", " ", "D", "e", "p", "a", "r", "t", "m", "e", "n", "t">>),
           rule(hr, <<"E", "m", "p", "l", "o", "y", "e", "e">>, <<"R", "o", "l", "e">>, <<"E", "m", "p", "l", "o", "y", "e", "e", " ", "h", "a", "s", " ", "R", "o", "l", "e">>),
           rule(hr, <<"E", "m", "p", "l", "o", "y", "e", "e">>, <<"P", "a", "y", "r", "o", "l", "l">>, <<"E", "m", "p", "l", "o", "y", "e", "e", " ", "r", "e", "c", "e", "i", "v", "e", "s", " ", "P", "a", "y", "r", "o", "l", "l">>),
           rule(hr, <<"E", "m", "p", "l", "o", "y", "e", "e">>, <<"L", "e", "a", "v", "e">>, <<"E", "m", "p", "l", "o", "y", "e", "e", " ", "h", "a", "s", " ", "L", "e", "a", "v", "e">>),
           rule(crm, <<"L", "e", "a", "d">>, <<"D", "e", "a", "l">>, <<"L", "e", "a", "d", " ", "c", "o", "n", "v", "e", "r", "t", "s", " ", "t", "o", " ", "D", "e", "a", "l">>),
           rule(crm, <<"A", "c", "c", "o", "u", "n", "t">>, <<"C", "o", "n", "t", "a", "c", "t">>, <<"A", "c", "c", "o", "u", "n", "t", " ", "h", "a", "s", " ", "C", "o", "n", "t", "a", "c", "t">>),
           rule(crm, <<"U", "s", "e", "r">>, <<"D", "e", "a", "l">>, <<"U", "s", "e", "r", " ", "o", "w", "n", "s", " ", "D", "e", "a", "l">>),
           rule(logistics, <<"S", "h", "i", "p", "m", "e", "n", "t">>, <<"D", "e", "l", "i", "v", "e", "r", "y">>, <<"S", "h", "i", "p", "m", "e", "n", "t", " ", "h", "a", "s", " ", "D", "e", "l", "i", "v", "e", "r", "y">>),
           rule(logistics, <<"W", "a", "r", "e", "h", "o", "u", "s", "e">>, <<"I", "n", "v", "e", "n", "t", "o", "r", "y">>, <<"W", "a", "r", "e", "h", "o", "u", "s", "e", " ", "h", "a", "s", " ", "I", "n", "v", "e", "n", "t", "o", "r", "y">>),
           rule(logistics, <<"R", "o", "u", "t", "e">>, <<"V", "e", "h", "i", "c", "l", "e">>, <<"R", "o", "u", "t", "e", " ", "u", "s", "e", "s", " ", "V", "e", "h", "i", "c", "l", "e">>),
           rule(finance, <<"A", "c", "c", "o", "u", "n", "t">>, <<"T", "r", "a", "n", "s", "a", "c", "t", "i", "o", "n">>, <<"A", "c", "c", "o", "u", "n", "t", " ", "h", "a", "s", " ", "T", "r", "a", "n", "s", "a", "c", "t", "i", "o", "n">>),
           rule(finance, <<"A", "c", "c", "o", "u", "n", "t">>, <<"C", "a", "r", "d">>, <<"A", "c", "c", "o", "u", "n", "t", " ", "h", "a", "s", " ", "C", "a", "r", "d">>),
           rule(finance, <<"A", "c", "c", "o", "u", "n", "t">>, <<"L", "e", "d", "g", "e", "r">>, <<"A", "c", "c", "o", "u", "n", "t", " ", "h", "a", "s", " ", "L", "e", "d", "g", "e", "r">>) >>

relations_by_rule(rule, sentence_lower, present) ==
    IF \E k \in Range(rule.keywords) : str_in(k, sentence_lower)
    THEN concat_all([i \in DOMAIN present |-> concat_all([j \in DOMAIN present |->
            IF present[i] # present[j] /\ present[i] \in rule.subjects /\ present[j] \in rule.objects
            THEN <<present[i] \o <<" ">> \o rule.verb \o <<" ">> \o present[j]>> ELSE <<>>])])
    ELSE <<>>

\* the relations one sentence gives
sentence_relations(sentence, entities) ==
    With([sentence_lower \in {str_lower(sentence)} |->
    With([present \in {_entities_in_sentence(sentence_lower, entities)} |->
        IF Len(present) < 2 THEN <<>>
        ELSE concat_all([r \in DOMAIN RELATION_RULES |->
                            relations_by_rule(RELATION_RULES[r], sentence_lower, present)])
             \o (IF str_in(<<"b", "e", "l", "o", "n", "g", "s", " ", "t", "o">>, sentence_lower)
                 THEN <<present[1] \o <<" ", "b", "e", "l", "o", "n", "g", "s", " ", "t", "o", " ">> \o present[2]>>
                 ELSE IF \E w \in {<<"h", "a", "s">>, <<"c", "o", "n", "t", "a", "i", "n", "s">>, <<"i", "n", "c", "l", "u", "d", "e", "s">>} : str_in(w, sentence_lower)
                 THEN <<present[1] \o <<" ", "h", "a", "s", " ">> \o present[2]>>
                 ELSE <<>>)])])

default_relations(input_lower, entities) ==
    concat_all([i \in DOMAIN DEFAULT_RELATIONS |->
        IF /\ DEFAULT_RELATIONS[i].words = {}
              \/ \E w \in DEFAULT_RELATIONS[i].words : word_search(w, input_lower)
           /\ \A e \in DEFAULT_RELATIONS[i].needs : InSeq(entities, e)
        THEN <<DEFAULT_RELATIONS[i].relation>> ELSE <<>>])

\* installed: _get_nlp gave a pipeline, which marks no sentence starts, so the
\* text is one sentence; otherwise the text is cut at ".", "!" and "?"
_relationships(input_text, entities, installed) ==
    With([normalized \in {_normalize_text(input_text)} |->
    With([sentences \in {IF installed THEN <<normalized>> ELSE split_sentences(normalized, 1)} |->
    With([relations \in {concat_all([i \in DOMAIN sentences |-> sentence_relations(sentences[i], entities)])} |->
        unique(IF Len(relations) = 0 THEN default_relations(str_lower(normalized), entities)
               ELSE relations, {})])])])

_collection_name(entity) == _pluralize(str_lower(entity))

\* d[key][field] = value, for mappings of JSON values
SetField(d, key, field, value) == Put(d, key, Dict(Put(d[key].f, field, value)))

id_only == Dict(Put(EmptyMap, Lit_id, ObjectIdT))

\* _apply_relation looking for the words among the words of the verb phrase
_apply_relation_whole_words(schema, relation, choice) ==
    LET parts == str_split(relation)
        left == parts[1]
        right == parts[Len(parts)]
        verb == SubSeq(parts, 2, Len(parts) - 1)
        left_collection == _collection_name(left)
        right_collection == _collection_name(right)
        right_plural == _pluralize(str_lower(right))
        any_in(words) == \E i \in DOMAIN verb : str_lower(verb[i]) \in words
    IN  IF Len(parts) < 3 THEN schema
        ELSE IF left_collection \notin DOMAIN schema \/ right_collection \notin DOMAIN schema THEN schema
        ELSE IF any_in({<<"h", "a", "s">>, <<"c", "o", "n", "t", "a", "i", "n", "s">>, <<"i", "n", "c", "l", "u", "d", "e", "s">>, <<"e", "n", "r", "o", "l", "l", "s">>, <<"b", "o", "r", "r", "o", "w", "s">>, <<"t", "a", "k", "e", "s">>, <<"p", "a", "y", "s">>, <<"r", "e", "c", "e", "i", "v", "e", "s">>})
        THEN IF choice = Lit_embed
             THEN SetField(schema, left_collection, right_plural, List(<<id_only>>))
             ELSE SetField(schema, left_collection, str_lower(right) \o Lit_Ids, List(<<ObjectIdT>>))
        ELSE IF any_in({<<"b", "e", "l", "o", "n", "g", "s">>, <<"a", "s", "s", "i", "g", "n", "e", "d">>, <<"r", "e", "p", "o", "r", "t", "s">>, <<"g", "u", "a", "r", "d", "i", "a", "n", "s">>})
        THEN IF choice = Lit_embed
             THEN SetField(schema, left_collection, str_lower(right), id_only)
             ELSE SetField(schema, left_collection, str_lower(right) \o Lit_Id, ObjectIdT)
        ELSE IF choice = Lit_embed
        THEN SetField(schema, left_collection, right_plural, List(<<id_only>>))
        ELSE SetField(schema, right_collection, str_lower(left) \o Lit_Id, ObjectIdT)

\* schema is the mapping _apply_relation edits; the result is the mapping after
_apply_relation(schema, relation, choice) ==
    LET parts == str_split(relation)
        left == parts[1]
        right == parts[Len(parts)]
        verb == str_lower(str_join(<<" ">>, SubSeq(parts, 2, Len(parts) - 1)))
        left_collection == _collection_name(left)
        right_collection == _collection_name(right)
        right_plural == _pluralize(str_lower(right))
        any_in(words) == \E word \in words : str_in(word, verb)
    IN  IF Len(parts) < 3 THEN schema
        ELSE IF left_collection \notin DOMAIN schema \/ right_collection \notin DOMAIN schema THEN schema
        ELSE IF any_in({<<"h", "a", "s">>, <<"c", "o", "n", "t", "a", "i", "n", "s">>, <<"i", "n", "c", "l", "u", "d", "e", "s">>, <<"e", "n", "r", "o", "l", "l", "s">>, <<"b", "o", "r", "r", "o", "w", "s">>, <<"t", "a", "k", "e", "s">>, <<"p", "a", "y", "s">>, <<"r", "e", "c", "e", "i", "v", "e", "s">>})
        THEN IF choice = Lit_embed
             THEN SetField(schema, left_collection, right_plural, List(<<id_only>>))
             ELSE SetField(schema, left_collection, str_lower(right) \o Lit_Ids, List(<<ObjectIdT>>))
        ELSE IF any_in({<<"b", "e", "l", "o", "n", "g", "s">>, <<"a", "s", "s", "i", "g", "n", "e", "d">>, <<"r", "e", "p", "o", "r", "t", "s">>, <<"g", "u", "a", "r", "d", "i", "a", "n", "s">>})
        THEN IF choice = Lit_embed
             THEN SetField(schema, left_collection, str_lower(right), id_only)
             ELSE SetField(schema, left_collection, str_lower(right) \o Lit_Id, ObjectIdT)
        ELSE IF choice = Lit_embed
        THEN SetField(schema, left_collection, right_plural, List(<<id_only>>))
        ELSE SetField(schema, right_collection, str_lower(left) \o Lit_Id, ObjectIdT)

\* the second loop of _schema over the relations from position i; acc.ok is
\* FALSE after a KeyError
RECURSIVE apply_relations(_, _, _, _)
apply_relations(acc, relations, decisions, i) ==
    IF i > Len(relations) \/ ~acc.ok THEN acc
    ELSE LET relation == relations[i]
             choice == decisions.f[relation].s
             missing(c) == [ok |-> FALSE, err |-> <<"'">> \o c \o <<"'">>, schema |-> acc.schema]
             done(schema) == [ok |-> TRUE, err |-> <<>>, schema |-> schema]
             next ==
                IF relation = <<"U", "s", "e", "r", " ", "p", "l", "a", "c", "e", "s", " ", "O", "r", "d", "e", "r">>
                THEN IF choice = Lit_embed
                     THEN IF <<"u", "s", "e", "r", "s">> \notin DOMAIN acc.schema THEN missing(<<"u", "s", "e", "r", "s">>)
                          ELSE done(SetField(acc.schema, <<"u", "s", "e", "r", "s">>, <<"o", "r", "d", "e", "r", "s">>,
                                    List(<<Dict((Lit_id :> ObjectIdT) @@ (<<"t", "o", "t", "a", "l">> :> Str(<<"n", "u", "m", "b", "e", "r">>))
                                                @@ (<<"s", "t", "a", "t", "u", "s">> :> Str(<<"s", "t", "r", "i", "n", "g">>))
                                                @@ (<<"c", "r", "e", "a", "t", "e", "d", "A", "t">> :> Str(<<"d", "a", "t", "e">>)))>>)))
                     ELSE IF <<"o", "r", "d", "e", "r", "s">> \notin DOMAIN acc.schema THEN missing(<<"o", "r", "d", "e", "r", "s">>)
                          ELSE done(SetField(acc.schema, <<"o", "r", "d", "e", "r", "s">>, <<"u", "s", "e", "r", "I", "d">>, ObjectIdT))
                ELSE IF relation = <<"O", "r", "d", "e", "r", " ", "c", "o", "n", "t", "a", "i", "n", "s", " ", "P", "r", "o", "d", "u", "c", "t">>
                THEN IF <<"o", "r", "d", "e", "r", "s">> \notin DOMAIN acc.schema THEN missing(<<"o", "r", "d", "e", "r", "s">>)
                     ELSE IF choice = Lit_embed
                     THEN done(SetField(acc.schema, <<"o", "r", "d", "e", "r", "s">>, <<"i", "t", "e", "m", "s">>,
                                    List(<<Dict((<<"p", "r", "o", "d", "u", "c", "t", "I", "d">> :> ObjectIdT) @@ (<<"q", "u", "a", "n", "t", "i", "t", "y">> :> Str(<<"n", "u", "m", "b", "e", "r">>))
                                                @@ (<<"p", "r", "i", "c", "e">> :> Str(<<"n", "u", "m", "b", "e", "r">>)))>>)))
                     ELSE done(SetField(acc.schema, <<"o", "r", "d", "e", "r", "s">>, <<"p", "r", "o", "d", "u", "c", "t", "I", "d", "s">>, List(<<ObjectIdT>>)))
                ELSE done(_apply_relation(acc.schema, relation, choice))
         IN  With([done_i \in {next} |-> apply_relations(done_i, relations, decisions, i + 1)])

\* relations: the keys of decisions in the order they were inserted
_schema(entities, relations, decisions) ==
    LET collections == {_collection_name(entities[i]) : i \in DOMAIN entities}
        last(c) == entities[Max({i \in DOMAIN entities : _collection_name(entities[i]) = c})]
        fields(entity) == Range(template_of(entity))
        created == [c \in collections |->
                      Dict([field \in {Lit_id} \cup fields(last(c)) |->
                              IF field \in fields(last(c)) THEN StringT ELSE ObjectIdT])]
    IN  apply_relations([ok |-> TRUE, err |-> <<>>, schema |-> created], relations, decisions, 1)

_why_not(decisions) ==
    Dict([relation \in DOMAIN decisions.f |->
            IF decisions.f[relation] = Str(Lit_reference)
            THEN Str(<<"E", "m", "b", "e", "d", "d", "i", "n", "g", " ", "r", "i", "s", "k", "s", " ", "u", "n", "b", "o", "u", "n", "d", "e", "d", " ", "d", "o", "c", "u", "m", "e", "n", "t", " ", "g", "r", "o", "w", "t", "h", " ", "a", "n", "d", " ", "u", "p", "d", "a", "t", "e", " ", "f", "a", "n", "-", "o", "u", "t", ".">>)
            ELSE Str(<<"R", "e", "f", "e", "r", "e", "n", "c", "i", "n", "g", " ", "w", "o", "u", "l", "d", " ", "i", "n", "c", "r", "e", "a", "s", "e", " ", "r", "e", "a", "d", " ", "l", "a", "t", "e", "n", "c", "y", " ", "a", "n", "d", " ", "r", "e", "q", "u", "i", "r", "e", " ", "e", "x", "t", "r", "a", " ", "l", "o", "o", "k", "u", "p", "s", ".">>)])

_confidence(decisions) ==
    Dict([relation \in DOMAIN decisions.f |->
            IF decisions.f[relation] = Str(Lit_reference) THEN Num(82) ELSE Num(76)])

_attributes(entities) ==
    Dict([entity \in Range(entities) |->
            List([i \in DOMAIN template_of(entity) |-> Str(template_of(entity)[i])])])

\* relations: the keys of decisions in the order they were inserted
_indexes(relations, decisions) ==
    LET of(relation) ==
            LET parts == str_split(relation)
            IN  IF Len(parts) >= 3 /\ decisions.f[relation] = Str(Lit_reference)
                THEN <<Dict((Lit_collection :> Str(_collection_name(parts[Len(parts)])))
                            @@ (<<"f", "i", "e", "l", "d">> :> Str(str_lower(parts[1]) \o Lit_Id)))>>
                ELSE <<>>
    IN  List(concat_all([i \in DOMAIN relations |-> of(relations[i])]))

_warnings(txt, decisions) ==
    LET embeds == \E relation \in DOMAIN decisions.f : decisions.f[relation] = Str(Lit_embed)
        lowered == str_lower(txt)
    IN  (IF str_in(Lit_history, lowered) /\ embeds
         THEN <<Str(<<"E", "m", "b", "e", "d", "d", "e", "d", " ", "h", "i", "s", "t", "o", "r", "y", " ", "a", "r", "r", "a", "y", "s", " ", "m", "a", "y", " ", "g", "r", "o", "w", " ", "u", "n", "b", "o", "u", "n", "d", "e", "d", ".">>)>> ELSE <<>>)
        \o (IF str_in(Lit_many, lowered) /\ embeds
         THEN <<Str(<<"E", "m", "b", "e", "d", "d", "i", "n", "g", " ", "m", "a", "n", "y", "-", "t", "o", "-", "o", "n", "e", " ", "d", "a", "t", "a", " ", "c", "a", "n", " ", "i", "n", "c", "r", "e", "a", "s", "e", " ", "d", "o", "c", "u", "m", "e", "n", "t", " ", "s", "i", "z", "e", " ", "a", "n", "d", " ", "u", "p", "d", "a", "t", "e", " ", "c", "o", "s", "t", ".">>)>> ELSE <<>>)
        \o (IF str_in(Lit_audit, lowered) /\ embeds
         THEN <<Str(<<"A", "u", "d", "i", "t", " ", "l", "o", "g", "s", " ", "s", "h", "o", "u", "l", "d", " ", "u", "s", "u", "a", "l", "l", "y", " ", "b", "e", " ", "r", "e", "f", "e", "r", "e", "n", "c", "e", "d", " ", "t", "o", " ", "a", "v", "o", "i", "d", " ", "r", "a", "p", "i", "d", " ", "g", "r", "o", "w", "t", "h", ".">>)>> ELSE <<>>)

_explanations(decisions) ==
    Dict([relation \in DOMAIN decisions.f |->
            IF decisions.f[relation] = Str(Lit_reference)
            THEN Str(<<"R", "e", "f", "e", "r", "e", "n", "c", "i", "n", "g", " ", "k", "e", "e", "p", "s", " ", "d", "o", "c", "u", "m", "e", "n", "t", "s", " ", "s", "m", "a", "l", "l", " ", "a", "n", "d", " ", "a", "v", "o", "i", "d", "s", " ", "l", "a", "r", "g", "e", " ", "a", "r", "r", "a", "y", " ", "g", "r", "o", "w", "t", "h", ".">>)
            ELSE Str(<<"E", "m", "b", "e", "d", "d", "i", "n", "g", " ", "s", "u", "p", "p", "o", "r", "t", "s", " ", "f", "a", "s", "t", " ", "r", "e", "a", "d", "s", " ", "f", "o", "r", " ", "t", "i", "g", "h", "t", "l", "y", "-", "c", "o", "u", "p", "l", "e", "d", " ", "d", "a", "t", "a", ".">>)])

\* installed and candidates: what _get_nlp and _extract_entity_candidates gave.
\* ok = FALSE when an exception leaves the function.
generate_fallback_result(input_text, workload, error, entities, relationships, engine, version_info) ==
    With([built \in {_schema(entities, relationships, engine.decisions)} |->
        IF ~built.ok THEN Raise(built.err)
        ELSE [ok |-> TRUE, err |-> <<>>,
              out |-> version_info
                @@ ("entities" :> StrList(entities))
                @@ ("relationships" :> _normalize_relationships(StrList(relationships), engine.decisions))
                @@ ("attributes" :> _attributes(entities))
                @@ ("decisions" :> engine.decisions)
                @@ ("whyNot" :> _why_not(engine.decisions))
                @@ ("confidence" :> _confidence(engine.decisions))
                @@ ("futureRiskScore" :> Num(future_risk_score(engine.decisions, engine.growth_map)))
                @@ ("performanceIndex" :> Num(performance_index(engine.query_costs)))
                @@ ("queryCostAnalysis" :> engine.query_costs)
                @@ ("growthRiskMap" :> engine.growth_map)
                @@ ("autoSharding" :> suggest_sharding(StrList(entities)))
                @@ ("schema" :> _normalize_schema(Dict(built.schema)))
                @@ ("indexes" :> _indexes(relationships, engine.decisions))
                @@ ("warnings" :> List(_warnings(input_text, engine.decisions)
                                       \o <<Str(<<"F", "a", "l", "l", "b", "a", "c", "k", " ", "N", "L", "P", " ", "m", "o", "d", "e", " ", "(", "G", "r", "o", "q", " ", "e", "r", "r", "o", "r", ":", " ">> \o error \o <<")">>)>>))
                @@ ("explanations" :> _explanations(engine.decisions))
                @@ ("accessPattern" :> Str(workload))]])

\* installed and candidates: what _get_nlp and _extract_entity_candidates gave.
\* ok = FALSE when an exception leaves the function.
_generate_schema_fallback(input_text, workload, error, installed, candidates, version_info) ==
    With([entities \in {_extract_entities(input_text, candidates)} |->
    With([relationships \in {_relationships(input_text, entities, installed)} |->
    With([engine \in {advanced_decision_engine(input_text, relationships)} |->
        generate_fallback_result(input_text, workload, error, entities, relationships, engine, version_info)])])])

---------------------------------------------------------------------------
(* What the generative service answers to one prompt.                      *)

\* the call raised an exception with text e
Raises(e) == [kind |-> "raises", err |-> e, value |-> None, object |-> EmptyMap]
\* the content holds no JSON; e is the text of the error of the parser
Unparsed(e) == [kind |-> "unparsed", err |-> e, value |-> None, object |-> EmptyMap]
\* the content is the JSON value v, not an object
Value(v) == [kind |-> "value", err |-> <<>>, value |-> v, object |-> EmptyMap]
\* the content is a JSON object, a mapping from its keys to JSON values
Object(m) == [kind |-> "object", err |-> <<>>, value |-> None, object |-> m]

\* the result of _run_refinement_llm, or the error it raises
_run_refinement_llm(response) ==
    IF response.kind \in {"raises", "unparsed"} THEN Raise(response.err)
    ELSE IF response.kind = "value" THEN Raise(<<"L", "L", "M", " ", "r", "e", "s", "p", "o", "n", "s", "e", " ", "i", "s", " ", "n", "o", "t", " ", "a", " ", "J", "S", "O", "N", " ", "o", "b", "j", "e", "c", "t">>)
    ELSE [ok |-> TRUE, err |-> <<>>, result |-> response.object]

\* line 1057 and line 1060
lacks_schema(run) == run.ok /\ "schema" \notin DOMAIN run.result

\* s.split(sep), scanning from p
RECURSIVE split_on(_, _, _)
split_on(s, sep, p) ==
    LET hits == {q \in p..(Len(s) - Len(sep) + 1) : MatchAt(s, q, sep)}
    IN  IF hits = {} THEN <<SubSeq(s, p, Len(s))>>
        ELSE <<SubSeq(s, p, Min(hits) - 1)>> \o split_on(s, sep, Min(hits) + Len(sep))

\* lines 864-873: a list of labels "a -> b ..." as a mapping "a to b" -> label
relationships_from_list(relationships_obj) ==
    LET labels == relationships_obj.l
        name(i) == LET parts == split_on(labels[i].s, <<" ", "-", ">", " ">>, 1)
                   IN  parts[1] \o <<" ", "t", "o", " ">> \o parts[2]
        usable == {i \in DOMAIN labels :
                      isinstance(labels[i], "str") /\ Len(split_on(labels[i].s, <<" ", "-", ">", " ">>, 1)) >= 2}
    IN  Dict([rel_name \in {name(i) : i \in usable} |->
                labels[Max({i \in usable : name(i) = rel_name})]])

\* the key a dict comprehension gives an item: the str itself (the text of
\* a number, true, false or null for the other hashable items)
item_key(v) == IF isinstance(v, "str") THEN v.s ELSE json_dumps(v)

\* lines 857-862: the relationships the answer gives, a list turned to a mapping
generate_relationships(result, decisions_0, nested) ==
    IF nested THEN decisions_0.f[Lit_relationships]
    ELSE IF isinstance(Get(result, "relationships", Dict(EmptyMap)), "list")
    THEN relationships_from_list(Get(result, "relationships", Dict(EmptyMap)))
    ELSE Get(result, "relationships", Dict(EmptyMap))

\* lines 864-905: the mapping the try block returns; keys are the entities as
\* mapping keys
generate_result(input_text, workload, result, nested, keys, version_info) ==
    With([decisions_0 \in {Get(result, "decisions", Dict(EmptyMap))} |->
    With([decisions_obj \in {IF nested THEN Dict(Del(decisions_0.f, Lit_relationships)) ELSE decisions_0} |->
    With([relationships_obj \in {_normalize_relationships(generate_relationships(result, decisions_0, nested), decisions_obj)} |->
    With([engine \in {advanced_decision_engine(input_text, sorted(DOMAIN relationships_obj.f))} |->
        version_info
        @@ ("entities" :> Get(result, "entities", List(<<>>)))
        @@ ("relationships" :> relationships_obj)
        @@ ("attributes" :> Dict([entity \in keys |-> List(<<>>)]))
        @@ ("decisions" :> decisions_obj)
        @@ ("whyNot" :> Dict(EmptyMap))
        @@ ("confidence" :> Dict([entity \in keys |-> Num(95)]))
        @@ ("futureRiskScore" :> Num(future_risk_score(engine.decisions, engine.growth_map)))
        @@ ("performanceIndex" :> Num(performance_index(engine.query_costs)))
        @@ ("queryCostAnalysis" :> engine.query_costs)
        @@ ("growthRiskMap" :> engine.growth_map)
        @@ ("autoSharding" :> suggest_sharding(Get(result, "entities", List(<<>>))))
        @@ ("schema" :> _normalize_schema(Get(result, "schema", Dict(EmptyMap))))
        @@ ("indexes" :> Get(result, "indexes", List(<<>>)))
        @@ ("warnings" :> Get(result, "warnings", List(<<>>)))
        @@ ("explanations" :> Get(result, "explanations",
                Dict(<<"d", "e", "s", "i", "g", "n">> :> Get(result, "description", Str(<<"S", "c", "h", "e", "m", "a", " ", "g", "e", "n", "e", "r", "a", "t", "e", "d", " ", "b", "y", " ", "G", "r", "o", "q">>)))))
        @@ ("accessPattern" :> Str(workload))])])])])

\* lines 857-906 of generate_schema, for the parsed response
generate_try_block(input_text, workload, response, version_info) ==
    IF response.kind \in {"raises", "unparsed"} THEN Raise(response.err)
    ELSE IF response.kind = "value" THEN Raise(err_no_attribute(response.value, <<"g", "e", "t">>))
    ELSE With([nested \in {nested_relationships(Get(response.object, "decisions", Dict(EmptyMap)))} |->
         IF ~nested.ok THEN Raise(nested.err)
         ELSE IF ~supports_in(Get(response.object, "entities", List(<<>>)))
         THEN Raise(err_not_iterable(Get(response.object, "entities", List(<<>>))))
         ELSE With([items \in {iterate(Get(response.object, "entities", List(<<>>))).items} |->
              IF unhashable(items) # {}
              THEN Raise(<<"u", "n", "h", "a", "s", "h", "a", "b", "l", "e", " ", "t", "y", "p", "e", ":", " ", "'">> \o type_name(items[Min(unhashable(items))]) \o <<"'">>)
              ELSE [ok |-> TRUE, err |-> <<>>,
                    out |-> generate_result(input_text, workload, response.object, nested.nested,
                                            {item_key(items[i]) : i \in DOMAIN items}, version_info)]])])

---------------------------------------------------------------------------
(* The two operations, as functions of what their environment gave them.   *)

\* what the environment of one request gives besides the responses:
\*   installed, candidates  the language pipeline of the rule-based generator
\*   child, parent          what _resolve_collection returned in the try block
\*   keys                   the order of the keys of new_schema
\*   fallback_child, fallback_parent   the same in the except block
\*   uuid4, now             the identifier drawn and the clock's reading
Returned(result, route) == [raised |-> FALSE, err |-> <<>>, out |-> result, path |-> route]
Propagated(e, route) == [raised |-> TRUE, err |-> e, out |-> EmptyMap, path |-> route]

\* generate_schema, lines 836-910
generate_schema(input_text, workload, response, env) ==
    With([version_info \in {_build_schema_version(NoBase, env.uuid4, env.now)} |->
    With([tried \in {generate_try_block(input_text, workload, response, version_info)} |->
        IF tried.ok THEN Returned(tried.out, "llm")
        ELSE With([fallback \in {_generate_schema_fallback(input_text, workload, tried.err,
                                           env.installed, env.candidates, version_info)} |->
                 IF fallback.ok THEN Returned(fallback.out, "fallback")
                 ELSE Propagated(fallback.err, "fallback")])])])

\* line 1057: the strict prompt is sent after these responses
second_call_needed(answers) ==
    Len(answers) = 1 /\ lacks_schema(_run_refinement_llm(answers[1]))

\* apply_refinement after the last response: the set of its outcomes.
\* answers are the responses of the generative service so far, uuid4 and now
\* what uuid.uuid4() and the clock give.
apply_refinement(base, refinement_text, workload, answers, uuid4, now) ==
    With([old_schema \in {_normalize_schema(Get(base, "schema", Dict(EmptyMap)))} |->
    With([version_info \in {_build_schema_version(base, uuid4, now)} |->
    With([run \in {_run_refinement_llm(answers[Len(answers)])} |->
    With([tried \in {IF ~run.ok THEN {Raise(run.err)}
                     ELSE IF lacks_schema(run) THEN {Raise(<<"L", "L", "M", " ", "r", "e", "s", "p", "o", "n", "s", "e", " ", "m", "i", "s", "s", "i", "n", "g", " ", "s", "c", "h", "e", "m", "a">>)}
                     ELSE try_block(base, old_schema, refinement_text, workload,
                                    run.result, version_info)} |->
        {Returned(t.out, "llm") : t \in {x \in tried : x.ok}}
        \cup {IF handled.ok THEN Returned(handled.out, "fallback")
              ELSE Propagated(handled.err, "fallback") :
                 handled \in UNION {except_block(base, old_schema, refinement_text, workload,
                                                 t.err, version_info) :
                                       t \in {x \in tried : ~x.ok}}}])])])])


---------------------------------------------------------------------------
(* The service as a state machine.  One lineage of schema documents is     *)
(* followed: create_schema starts it, refine_schema extends it.  A request  *)
(* waits for the generative service, whose response is the environment's   *)
(* choice.                                                                  *)

\* refinement stops at this schemaVersion
MaxVersion == 2

InputTexts ==
    { <<"A", " ", "s", "c", "h", "o", "o", "l", " ", "w", "i", "t", "h", " ", "s", "t", "u", "d", "e", "n", "t", "s", ",", " ", "t", "e", "a", "c", "h", "e", "r", "s", " ", "a", "n", "d", " ", "c", "l", "a", "s", "s", "e", "s", ".", " ", "S", "t", "u", "d", "e", "n", "t", "s", " ", "e", "n", "r", "o", "l", "l", " ", "i", "n", " ", "c", "l", "a", "s", "s", "e", "s", ".">>,
      <<"b", "l", "o", "g", " ", "w", "i", "t", "h", " ", "P", "o", "s", "t", "s", " ", "a", "n", "d", " ", "C", "o", "m", "m", "e", "n", "t", "s">> }

Workloads == { <<"b", "a", "l", "a", "n", "c", "e", "d">> }

RefinementTexts ==
    { <<"e", "m", "b", "e", "d", " ", "c", "o", "m", "m", "e", "n", "t", "s", " ", "i", "n", " ", "p", "o", "s", "t", "s">>,
      <<"k", "e", "e", "p", " ", "c", "o", "m", "m", "e", "n", "t", "s", " ", "i", "n", " ", "p", "o", "s", "t", "s", " ", "c", "o", "l", "l", "e", "c", "t", "i", "o", "n">>,
      <<"a", "d", "d", " ", "c", "o", "l", "l", "e", "c", "t", "i", "o", "n", " ", "n", "a", "m", "e", "d", " ", "r", "e", "v", "i", "e", "w", "s">>,
      <<"r", "e", "m", "o", "v", "e", " ", "c", "o", "l", "l", "e", "c", "t", "i", "o", "n", " ", "c", "o", "m", "m", "e", "n", "t", "s">> }

\* identifiers uuid.uuid4() can draw and readings of the clock
Ids == { <<"u", "1">>, <<"u", "2">> }
Clock == { <<"t", "1">> }

\* what _get_nlp and _extract_entity_candidates can give: the pipeline is
\* not installed, or it is and finds these noun phrases
Pipelines ==
    { [installed |-> FALSE, candidates |-> <<>>],
      [installed |-> TRUE, candidates |-> << <<"P", "o", "s", "t", "s">>, <<"C", "o", "m", "m", "e", "n", "t", "s">> >>] }

blog_schema ==
    Dict((<<"p", "o", "s", "t", "s">> :> Dict((Lit_id :> ObjectIdT) @@ (<<"t", "i", "t", "l", "e">> :> Str(<<"S", "t", "r", "i", "n", "g">>))
                           @@ (<<"c", "o", "m", "m", "e", "n", "t", "I", "d", "s">> :> List(<<ObjectIdT>>))))
         @@ (<<"c", "o", "m", "m", "e", "n", "t", "s">> :> Dict((Lit_id :> ObjectIdT) @@ (<<"b", "o", "d", "y">> :> Str(<<"S", "t", "r", "i", "n", "g">>))
                                 @@ (<<"p", "o", "s", "t", "I", "d">> :> ObjectIdT))))

blog_answer ==
    ("schema" :> blog_schema)
    @@ ("entities" :> List(<<Str(<<"P", "o", "s", "t">>), Str(<<"C", "o", "m", "m", "e", "n", "t">>)>>))
    @@ ("relationships" :> Dict(<<"P", "o", "s", "t", " ", "h", "a", "s", " ", "C", "o", "m", "m", "e", "n", "t">> :> Str(<<"r", "e", "f", "e", "r", "e", "n", "c", "e">>)))
    @@ ("decisions" :> Dict(<<"P", "o", "s", "t", " ", "h", "a", "s", " ", "C", "o", "m", "m", "e", "n", "t">> :> Str(<<"r", "e", "f", "e", "r", "e", "n", "c", "e">>)))
    @@ ("warnings" :> List(<<>>))

\* an answer whose identity field is a string and whose warnings are null
users_answer ==
    ("schema" :> Dict(<<"u", "s", "e", "r", "s">> :> Dict((Lit_id :> Str(<<"s", "t", "r", "i", "n", "g">>)) @@ (<<"e", "m", "a", "i", "l">> :> Str(<<"s", "t", "r", "i", "n", "g">>)))))
    @@ ("entities" :> List(<<Str(<<"U", "s", "e", "r">>)>>))
    @@ ("warnings" :> None)

GenerateResponses ==
    { Raises(<<"C", "o", "n", "n", "e", "c", "t", "i", "o", "n", " ", "e", "r", "r", "o", "r", ".">>),
      Unparsed(<<"C", "o", "u", "l", "d", " ", "n", "o", "t", " ", "p", "a", "r", "s", "e", " ", "G", "r", "o", "q", " ", "r", "e", "s", "p", "o", "n", "s", "e", " ", "a", "s", " ", "J", "S", "O", "N">>),
      Object(blog_answer),
      Object(users_answer) }

refined_answer ==
    blog_answer @@ ("refinementSummary" :> Str(<<"A", "d", "d", "e", "d", " ", "t", "h", "e", " ", "e", "m", "a", "i", "l", " ", "f", "i", "e", "l", "d", " ", "t", "o", " ", "t", "h", "e", " ", "u", "s", "e", "r", "s", " ", "c", "o", "l", "l", "e", "c", "t", "i", "o", "n", ".">>))

no_schema_answer == ("entities" :> List(<<>>))

RefinementResponses ==
    { Raises(<<"C", "o", "n", "n", "e", "c", "t", "i", "o", "n", " ", "e", "r", "r", "o", "r", ".">>),
      Unparsed(<<"I", "n", "v", "a", "l", "i", "d", " ", "J", "S", "O", "N", " ", "f", "r", "o", "m", " ", "L", "L", "M">>),
      Value(List(<<>>)),
      Object(no_schema_answer),
      Object(refined_answer) }

StrictResponses ==
    { Raises(<<"r", "a", "t", "e", " ", "l", "i", "m", "i", "t">>),
      Object(no_schema_answer),
      Object(refined_answer) }

\* the result documents hold integers as schemaVersion
version_of(result) == result["schemaVersion"].n

Init ==
    /\ pc = "idle"
    /\ op = "none"
    /\ base_result = EmptyMap
    /\ text = <<>>
    /\ workload_type = <<>>
    /\ calls = 0
    /\ responses = <<>>
    /\ out = EmptyMap
    /\ path = "none"
    /\ raised = FALSE
    /\ fn = "none"
    /\ arg = None
    /\ ret = None
    /\ schemaHistory = <<>>
    /\ handlers = {}
    /\ agents = <<>>
    /\ _user_agents = <<>>
    /\ served = <<>>

\* POST /schemas/generate up to the call of the generative service
create_schema ==
    /\ pc = "idle"
    /\ \E input_text \in InputTexts, workload \in Workloads :
          /\ text' = input_text
          /\ workload_type' = workload
    /\ pc' = "generate_call"
    /\ op' = "generate"
    /\ base_result' = EmptyMap
    /\ UNCHANGED <<calls, responses, out, path, raised, fn, arg, ret>>
    /\ UNCHANGED app_vars

\* the service answers and generate_schema runs to its end
generate_response ==
    /\ pc = "generate_call"
    /\ \E response \in GenerateResponses, nlp \in Pipelines, u \in Ids, n \in Clock :
          \E done \in {generate_schema(text, workload_type, response,
                          [installed |-> nlp.installed, candidates |-> nlp.candidates,
                           uuid4 |-> u, now |-> n])} :
              /\ responses' = <<response>>
              /\ out' = done.out
              /\ path' = done.path
              /\ raised' = done.raised
    /\ calls' = 1
    /\ pc' = "returned"
    /\ UNCHANGED <<op, base_result, text, workload_type, fn, arg, ret>>
    /\ UNCHANGED app_vars

\* POST /schemas/refine up to the first call of the generative service
refine_schema ==
    /\ pc = "idle"
    /\ "schema" \in DOMAIN base_result
    /\ version_of(base_result) < MaxVersion
    /\ \E refinement_text \in RefinementTexts, workload \in Workloads :
          /\ text' = refinement_text
          /\ workload_type' = workload
    /\ pc' = "first_call"
    /\ op' = "refine"
    /\ UNCHANGED <<base_result, calls, responses, out, path, raised, fn, arg, ret>>
    /\ UNCHANGED app_vars

\* the service answers the first prompt
first_response ==
    /\ pc = "first_call"
    /\ \E response \in RefinementResponses :
          /\ responses' = <<response>>
          /\ pc' = IF second_call_needed(<<response>>) THEN "second_call" ELSE "answered"
    /\ calls' = 1
    /\ UNCHANGED <<op, base_result, text, workload_type, out, path, raised, fn, arg, ret>>
    /\ UNCHANGED app_vars

\* the service answers the strict prompt
strict_response ==
    /\ pc = "second_call"
    /\ \E response \in StrictResponses : responses' = responses \o <<response>>
    /\ calls' = 2
    /\ pc' = "answered"
    /\ UNCHANGED <<op, base_result, text, workload_type, out, path, raised, fn, arg, ret>>
    /\ UNCHANGED app_vars

\* apply_refinement from the last response to its end
refinement_returns ==
    /\ pc = "answered"
    /\ \E u \in Ids \ {Get(base_result, "schemaVersionId", None).s}, n \in Clock :
          \E done \in apply_refinement(base_result, text, workload_type, responses, u, n) :
              /\ out' = done.out
              /\ path' = done.path
              /\ raised' = done.raised
    /\ pc' = "returned"
    /\ UNCHANGED <<op, base_result, text, workload_type, calls, responses, fn, arg, ret>>
    /\ UNCHANGED app_vars

\* the handler stores the result as the newest document of the lineage
insert_document ==
    /\ pc = "returned"
    /\ ~raised
    /\ base_result' = out
    /\ pc' = "idle"
    /\ op' = "none"
    /\ text' = <<>>
    /\ workload_type' = <<>>
    /\ calls' = 0
    /\ responses' = <<>>
    /\ out' = EmptyMap
    /\ path' = "none"
    /\ UNCHANGED <<raised, fn, arg, ret>>
    /\ UNCHANGED app_vars

\* the exception leaves the handler: nothing is stored
request_fails ==
    /\ pc = "returned"
    /\ raised
    /\ pc' = "idle"
    /\ op' = "none"
    /\ text' = <<>>
    /\ workload_type' = <<>>
    /\ calls' = 0
    /\ responses' = <<>>
    /\ out' = EmptyMap
    /\ path' = "none"
    /\ raised' = FALSE
    /\ UNCHANGED <<base_result, fn, arg, ret>>
    /\ UNCHANGED app_vars

Next ==
    \/ create_schema
    \/ generate_response
    \/ refine_schema
    \/ first_response
    \/ strict_response
    \/ refinement_returns
    \/ insert_document
    \/ request_fails

Spec == Init /\ [][Next]_vars

---------------------------------------------------------------------------
(* The agent of services/agent_engine.py.                                  *)

MAX_HISTORY == 6
MAX_RETRIES == 2

\* bool(v) for a JSON value
py_truthy(v) ==
    IF v.k = "none" THEN FALSE
    ELSE IF v.k \in {"bool", "num"} THEN v.n # 0
    ELSE IF v.k = "str" THEN v.s # <<>>
    ELSE IF v.k = "dict" THEN DOMAIN v.f # {}
    ELSE v.l # <<>>

\* an agent: its user, its history, and (a history variable) every entry
\* that add_message appended to it
SchemaDesignAgent(user_id) == [user_id |-> user_id, history |-> <<>>, appended |-> <<>>]

\* _trim_history keeping the oldest entries
_trim_history_oldest(history) ==
    IF Len(history) > MAX_HISTORY THEN SubSeq(history, 1, MAX_HISTORY) ELSE history

_trim_history(history) ==
    IF Len(history) > MAX_HISTORY
    THEN SubSeq(history, Len(history) - MAX_HISTORY + 1, Len(history))
    ELSE history

add_message(agent, role, content) ==
    [agent EXCEPT !.history = _trim_history(Append(@, [role |-> role, content |-> content])),
                  !.appended = Append(@, [role |-> role, content |-> content])]

\* the text of an assistant message is kept as what json.loads makes of it;
\* the result is None (parsed = FALSE) when neither parse succeeds
_safe_json_extract(assistant_text) ==
    IF assistant_text.kind = "unparsed" THEN [parsed |-> FALSE, mapping |-> FALSE, value |-> None, object |-> EmptyMap]
    ELSE IF assistant_text.kind = "value"
    THEN [parsed |-> TRUE, mapping |-> FALSE, value |-> assistant_text.value, object |-> EmptyMap]
    ELSE [parsed |-> TRUE, mapping |-> TRUE, value |-> None, object |-> assistant_text.object]

\* "not parsed" of line 154
not_parsed(extracted) ==
    \/ ~extracted.parsed
    \/ ~extracted.mapping /\ ~py_truthy(extracted.value)
    \/ extracted.mapping /\ DOMAIN extracted.object = {}

\* every value of the mapping or sequence is a str
all_str(values) == \A x \in DOMAIN values : isinstance(values[x], "str")

\* SchemaAgentOutput(**parsed) raises no ValidationError
SchemaAgentOutput(parsed) ==
    /\ \A key \in {"reasoning", "action", "user_message"} :
           key \in DOMAIN parsed /\ isinstance(parsed[key], "str")
    /\ \A key \in {"decisions", "relationships", "explanations"} :
           /\ key \in DOMAIN parsed /\ isinstance(parsed[key], "dict")
           /\ all_str(parsed[key].f)
    /\ "schema" \in DOMAIN parsed /\ isinstance(parsed["schema"], "dict")
    /\ "warnings" \in DOMAIN parsed /\ isinstance(parsed["warnings"], "list")
    /\ all_str(parsed["warnings"].l)
    /\ "indexes" \in DOMAIN parsed /\ isinstance(parsed["indexes"], "list")
    /\ \A i \in DOMAIN parsed["indexes"].l : isinstance(parsed["indexes"].l[i], "dict")

\* lines 184-192
required_fields_populated(structured) ==
    \A key \in {"reasoning", "user_message", "decisions", "relationships", "explanations",
                "warnings", "indexes"} : py_truthy(structured[key])

\* attempt_verdict without the test of the action
attempt_verdict_any_action(answer) ==
    IF answer.kind = "raises" THEN [verdict |-> "raised", err |-> answer.err, guidance |-> <<>>]
    ELSE With([extracted \in {_safe_json_extract(answer)} |->
        IF not_parsed(extracted)
        THEN [verdict |-> "retry", err |-> <<>>,
              guidance |-> <<"E", "R", "R", "O", "R", ":", " ", "Y", "o", "u", "r", " ", "r", "e", "s", "p", "o", "n", "s", "e", " ", "w", "a", "s", " ", "n", "o", "t", " ", "v", "a", "l", "i", "d", " ", "J", "S", "O", "N", ".", " ", "O", "u", "t", "p", "u", "t", " ", "o", "n", "l", "y", " ", "v", "a", "l", "i", "d", " ", "J", "S", "O", "N", " ", "w", "i", "t", "h", "o", "u", "t", " ", "m", "a", "r", "k", "d", "o", "w", "n", ".">>]
        ELSE IF ~extracted.mapping
        THEN [verdict |-> "raised", err |-> <<"a", "r", "g", "u", "m", "e", "n", "t", " ", "a", "f", "t", "e", "r", " ", "*", "*", " ", "m", "u", "s", "t", " ", "b", "e", " ", "a", " ", "m", "a", "p", "p", "i", "n", "g">>, guidance |-> <<>>]
        ELSE IF ~SchemaAgentOutput(extracted.object)
        THEN [verdict |-> "retry", err |-> <<>>, guidance |-> <<"V", "A", "L", "I", "D", "A", "T", "I", "O", "N", " ", "E", "R", "R", "O", "R", ":", " ", "F", "i", "x", " ", "a", "n", "d", " ", "r", "e", "g", "e", "n", "e", "r", "a", "t", "e", ".">>]
        ELSE IF ~required_fields_populated(extracted.object)
        THEN [verdict |-> "retry", err |-> <<>>, guidance |-> <<"E", "R", "R", "O", "R", ":", " ", "M", "i", "s", "s", "i", "n", "g", " ", "r", "e", "q", "u", "i", "r", "e", "d", " ", "f", "i", "e", "l", "d", "s", ".">>]
        ELSE IF Len(extracted.object["indexes"].l) < 2
        THEN [verdict |-> "retry", err |-> <<>>, guidance |-> <<"E", "R", "R", "O", "R", ":", " ", "M", "u", "s", "t", " ", "i", "n", "c", "l", "u", "d", "e", " ", "3", "+", " ", "p", "r", "o", "p", "e", "r", " ", "i", "n", "d", "e", "x", " ", "d", "e", "f", "i", "n", "i", "t", "i", "o", "n", "s", ".">>]
        ELSE [verdict |-> "accepted", err |-> <<>>, guidance |-> <<>>]])

\* what one pass of the loop does with the answer of the model, up to line
\* 207: "raised" (an exception reached line 225), "retry" with the message
\* appended for the next attempt, or "accepted"
attempt_verdict(answer) ==
    IF answer.kind = "raises" THEN [verdict |-> "raised", err |-> answer.err, guidance |-> <<>>]
    ELSE With([extracted \in {_safe_json_extract(answer)} |->
        IF not_parsed(extracted)
        THEN [verdict |-> "retry", err |-> <<>>,
              guidance |-> <<"E", "R", "R", "O", "R", ":", " ", "Y", "o", "u", "r", " ", "r", "e", "s", "p", "o", "n", "s", "e", " ", "w", "a", "s", " ", "n", "o", "t", " ", "v", "a", "l", "i", "d", " ", "J", "S", "O", "N", ".", " ", "O", "u", "t", "p", "u", "t", " ", "o", "n", "l", "y", " ", "v", "a", "l", "i", "d", " ", "J", "S", "O", "N", " ", "w", "i", "t", "h", "o", "u", "t", " ", "m", "a", "r", "k", "d", "o", "w", "n", ".">>]
        ELSE IF ~extracted.mapping
        THEN [verdict |-> "raised", err |-> <<"a", "r", "g", "u", "m", "e", "n", "t", " ", "a", "f", "t", "e", "r", " ", "*", "*", " ", "m", "u", "s", "t", " ", "b", "e", " ", "a", " ", "m", "a", "p", "p", "i", "n", "g">>, guidance |-> <<>>]
        ELSE IF ~SchemaAgentOutput(extracted.object)
        THEN [verdict |-> "retry", err |-> <<>>, guidance |-> <<"V", "A", "L", "I", "D", "A", "T", "I", "O", "N", " ", "E", "R", "R", "O", "R", ":", " ", "F", "i", "x", " ", "a", "n", "d", " ", "r", "e", "g", "e", "n", "e", "r", "a", "t", "e", ".">>]
        ELSE IF extracted.object["action"] # Str(<<"G", "E", "N", "E", "R", "A", "T", "E", "_", "S", "C", "H", "E", "M", "A">>)
        THEN [verdict |-> "retry", err |-> <<>>,
              guidance |-> <<"E", "R", "R", "O", "R", ":", " ", "a", "c", "t", "i", "o", "n", " ", "m", "u", "s", "t", " ", "b", "e", " ", "\"", "G", "E", "N", "E", "R", "A", "T", "E", "_", "S", "C", "H", "E", "M", "A", "\"", ".", " ", "N", "e", "v", "e", "r", " ", "a", "s", "k", " ", "q", "u", "e", "s", "t", "i", "o", "n", "s", ".", " ", "G", "e", "n", "e", "r", "a", "t", "e", " ", "i", "m", "m", "e", "d", "i", "a", "t", "e", "l", "y", ".">>]
        ELSE IF ~required_fields_populated(extracted.object)
        THEN [verdict |-> "retry", err |-> <<>>, guidance |-> <<"E", "R", "R", "O", "R", ":", " ", "M", "i", "s", "s", "i", "n", "g", " ", "r", "e", "q", "u", "i", "r", "e", "d", " ", "f", "i", "e", "l", "d", "s", ".">>]
        ELSE IF Len(extracted.object["indexes"].l) < 2
        THEN [verdict |-> "retry", err |-> <<>>, guidance |-> <<"E", "R", "R", "O", "R", ":", " ", "M", "u", "s", "t", " ", "i", "n", "c", "l", "u", "d", "e", " ", "3", "+", " ", "p", "r", "o", "p", "e", "r", " ", "i", "n", "d", "e", "x", " ", "d", "e", "f", "i", "n", "i", "t", "i", "o", "n", "s", ".">>]
        ELSE [verdict |-> "accepted", err |-> <<>>, guidance |-> <<>>]])

\* the content of a message that is plain text
Text(t) == [kind |-> "text", err |-> <<>>, value |-> Str(t), object |-> EmptyMap]

SYSTEM_PROMPT == Text(<<"Y", "o", "u", " ", "a", "r", "e", " ", "a", "n", " ", "e", "x", "p", "e", "r", "t", " ", "M", "o", "n", "g", "o", "D", "B", " ", "s", "c", "h", "e", "m", "a", " ", "d", "e", "s", "i", "g", "n", "e", "r", ".">>)

\* lines 227-237
error_response(e) ==
    ("reasoning" :> Str(<<"E", "r", "r", "o", "r", " ", "o", "c", "c", "u", "r", "r", "e", "d">>))
    @@ ("action" :> Str(<<"N", "O", "N", "E">>))
    @@ ("user_message" :> Str(<<"E", "r", "r", "o", "r", ":", " ">> \o e))
    @@ ("decisions" :> Dict(EmptyMap))
    @@ ("relationships" :> Dict(EmptyMap))
    @@ ("schema" :> None)
    @@ ("explanations" :> Dict(EmptyMap))
    @@ ("warnings" :> List(<<Str(<<"E", "r", "r", "o", "r", ":", " ">> \o e)>>))
    @@ ("indexes" :> List(<<>>))

\* lines 241-251
exhausted_response ==
    ("reasoning" :> Str(<<"F", "a", "i", "l", "e", "d", " ", "t", "o", " ", "g", "e", "n", "e", "r", "a", "t", "e", " ", "v", "a", "l", "i", "d", " ", "s", "c", "h", "e", "m", "a">>))
    @@ ("action" :> Str(<<"N", "O", "N", "E">>))
    @@ ("user_message" :> Str(<<"C", "o", "u", "l", "d", " ", "n", "o", "t", " ", "g", "e", "n", "e", "r", "a", "t", "e", " ", "v", "a", "l", "i", "d", " ", "s", "c", "h", "e", "m", "a", " ", "a", "f", "t", "e", "r", " ", "m", "u", "l", "t", "i", "p", "l", "e", " ", "a", "t", "t", "e", "m", "p", "t", "s">>))
    @@ ("decisions" :> Dict(EmptyMap))
    @@ ("relationships" :> Dict(EmptyMap))
    @@ ("schema" :> None)
    @@ ("explanations" :> Dict(EmptyMap))
    @@ ("warnings" :> List(<<Str(<<"F", "a", "i", "l", "e", "d", " ", "t", "o", " ", "g", "e", "n", "e", "r", "a", "t", "e", " ", "s", "c", "h", "e", "m", "a", " ", "a", "f", "t", "e", "r", " ", "r", "e", "t", "r", "i", "e", "s">>)>>))
    @@ ("indexes" :> List(<<>>))

\* lines 222-223: the validated answer with the final schema in place of its own
accepted_response(structured, final_schema) ==
    [key \in {"reasoning", "action", "user_message", "decisions", "relationships", "schema",
              "explanations", "warnings", "indexes"} |->
        IF key = "schema" THEN final_schema ELSE structured[key]]

\* lines 210-220: the outcomes of the call that makes the final schema;
\* nested is what the generative service answers to that call, current_schema
\* is None or the mapping of a stored result
final_schema(user_message, current_schema, nested) ==
    IF current_schema # None /\ DOMAIN current_schema # {}
    THEN apply_refinement(current_schema, user_message, <<"b", "a", "l", "a", "n", "c", "e", "d">>, <<nested>>, <<"u", "2">>, <<"t", "1">>)
    ELSE {generate_schema(user_message, <<"b", "a", "l", "a", "n", "c", "e", "d">>, nested,
                          [installed |-> FALSE, candidates |-> <<>>, uuid4 |-> <<"u", "1">>, now |-> <<"t", "1">>])}

\* what chat returns: the agent after the call, the messages of its last
\* prompt, the response mapping and the number of calls it made itself
chat_returned(agent, messages, response, own_calls) ==
    [agent |-> agent, messages |-> messages, response |-> response, calls |-> own_calls]

\* lines 139-251 from the pass numbered attempt: the set of outcomes
RECURSIVE chat_from(_, _, _, _, _, _, _)
chat_from(agent, messages, user_message, current_schema, answers, nested, attempt) ==
    IF attempt > MAX_RETRIES THEN {chat_returned(agent, messages, exhausted_response, attempt)}
    ELSE
    With([answer \in {answers[attempt + 1]} |->
    With([heard \in {IF answer.kind = "raises" THEN agent
                     ELSE add_message(agent, "assistant", answer)} |->
    With([judged \in {attempt_verdict(answer)} |->
        LET \* lines 225-238: the except clause for the exception with text e
            caught(e) ==
                IF attempt = MAX_RETRIES
                THEN {chat_returned(heard, messages, error_response(e), attempt + 1)}
                ELSE chat_from(heard, messages, user_message, current_schema, answers,
                               nested, attempt + 1)
        IN  IF judged.verdict = "retry"
            THEN chat_from(heard,
                           IF attempt < MAX_RETRIES
                           THEN Append(messages, [role |-> "system", content |-> Text(judged.guidance)])
                           ELSE messages,
                           user_message, current_schema, answers, nested, attempt + 1)
            ELSE IF judged.verdict = "raised" THEN caught(judged.err)
            ELSE UNION {IF final.raised THEN caught(final.err)
                        ELSE {chat_returned(heard, messages,
                                            accepted_response(_safe_json_extract(answer).object, final.out),
                                            attempt + 1)} :
                        final \in final_schema(user_message, current_schema, nested)}])])])

\* SchemaDesignAgent.chat, lines 133-251
chat(agent, user_message, current_schema, answers, nested) ==
    With([asked \in {add_message(agent, "user", Text(user_message))} |->
        chat_from(asked,
                  <<[role |-> "system", content |-> SYSTEM_PROMPT]>> \o asked.history,
                  user_message, current_schema, answers, nested, 0)])

---------------------------------------------------------------------------
(* The routers: routers/schema.py and routers/agent.py over the collection *)
(* db.schemaHistory and the registry of agents.                            *)

MaxDocuments == 3
MaxWork == 3
MaxChats == 2

Users == { <<"a", "l", "i", "c", "e">>, <<"b", "o", "b">> }

\* a bson ObjectId, by its 24 hexadecimal digits
ObjectId(hex) == [k |-> "ObjectId", s |-> hex, n |-> 0, f |-> <<>>, l |-> <<>>]

\* str(object_id)
py_str(object_id) == object_id.s

is_hex24(value) ==
    /\ Len(value) = 24
    /\ \A i \in 1..Len(value) : InSeq(digits \o <<"a", "b", "c", "d", "e", "f", "A", "B", "C", "D", "E", "F">>, value[i])

\* utils.to_object_id: None when ObjectId(value) raises
to_object_id(value) == IF is_hex24(value) THEN ObjectId(str_lower(value)) ELSE None

\* the identifier the store gives to the n-th document inserted
inserted_id(n) == ObjectId(<<"0", "0", "0", "0", "0", "0", "0", "0", "0", "0", "0", "0", "0", "0", "0", "0", "0", "0", "0", "0", "0", "0", "0">> \o <<digits[n + 1]>>)

\* the schema_id of a request: the identifier of a document that is or can be
\* stored, in either case of letters, or a text that is no identifier
SchemaIds ==
    {py_str(inserted_id(n)) : n \in 1..(MaxDocuments - 1)} \cup { <<"n", "o", "t", "-", "a", "n", "-", "i", "d">> }

\* db.schemaHistory.insert_one(doc): the collection after, doc with its _id
insert_one(collection, doc) ==
    Append(collection, [doc EXCEPT !._id = inserted_id(Len(collection) + 1)])

\* the positions of the documents a filter selects
matching(collection, object_id, users) ==
    {i \in DOMAIN collection : collection[i]._id = object_id /\ collection[i].userId \in users}

\* db.schemaHistory.find_one({"_id": object_id, "userId": u}) for u in users:
\* the position of the document, 0 for None
find_one(collection, object_id, users) ==
    IF matching(collection, object_id, users) = {} THEN 0
    ELSE Min(matching(collection, object_id, users))

\* lines 20-27 of routers/schema.py; a key the document lacks holds None,
\* by names the handler that inserted the document (a history variable)
generated_document(user, input_text, workload, result) ==
    [_id |-> None, userId |-> Str(user), inputText |-> Str(input_text),
     workloadType |-> Str(workload), result |-> result, version |-> Num(1),
     parentId |-> None, refinementText |-> None, rootId |-> None, by |-> "create_schema"]

\* refined_document with the identifier of the parent as rootId
refined_document_rooted_at_parent(user, parent, refinement_text, workload, result) ==
    [_id |-> None, userId |-> Str(user),
     inputText |-> Str(str_strip(parent.inputText.s) \o <<"\n">> \o <<"R", "e", "f", "i", "n", "e", "m", "e", "n", "t", ":", " ">> \o str_strip(refinement_text)),
     workloadType |-> Str(workload), result |-> result,
     version |-> Num(parent.version.n + 1),
     parentId |-> Str(py_str(parent._id)),
     refinementText |-> Str(refinement_text),
     rootId |-> Str(py_str(parent._id)),
     by |-> "refine_schema"]

\* lines 49-64 of routers/schema.py
refined_document(user, parent, refinement_text, workload, result) ==
    [_id |-> None, userId |-> Str(user),
     inputText |-> Str(str_strip(parent.inputText.s) \o <<"\n">> \o <<"R", "e", "f", "i", "n", "e", "m", "e", "n", "t", ":", " ">> \o str_strip(refinement_text)),
     workloadType |-> Str(workload), result |-> result,
     version |-> Num(parent.version.n + 1),
     parentId |-> Str(py_str(parent._id)),
     refinementText |-> Str(refinement_text),
     rootId |-> IF parent.rootId # None /\ parent.rootId.s # <<>> THEN parent.rootId
                ELSE Str(py_str(parent._id)),
     by |-> "refine_schema"]

\* an answer of the model that chat accepts
valid_agent_answer ==
    ("reasoning" :> Str(<<"P", "o", "s", "t", "s", " ", "a", "n", "d", " ", "c", "o", "m", "m", "e", "n", "t", "s", " ", "a", "r", "e", " ", "r", "e", "a", "d", " ", "t", "o", "g", "e", "t", "h", "e", "r", ".">>))
    @@ ("action" :> Str(<<"G", "E", "N", "E", "R", "A", "T", "E", "_", "S", "C", "H", "E", "M", "A">>))
    @@ ("user_message" :> Str(<<"H", "e", "r", "e", " ", "i", "s", " ", "y", "o", "u", "r", " ", "s", "c", "h", "e", "m", "a", ".">>))
    @@ ("decisions" :> Dict(<<"p", "o", "s", "t", "s">> :> Str(<<"r", "e", "f", "e", "r", "e", "n", "c", "e", " ", "c", "o", "m", "m", "e", "n", "t", "s">>)))
    @@ ("relationships" :> Dict(<<"p", "o", "s", "t", "s", " ", "t", "o", " ", "c", "o", "m", "m", "e", "n", "t", "s">> :> Str(<<"S", "E", "P", "A", "R", "A", "T", "E">>)))
    @@ ("schema" :> blog_schema)
    @@ ("explanations" :> Dict(<<"p", "o", "s", "t", "s">> :> Str(<<"C", "o", "m", "m", "e", "n", "t", "s", " ", "g", "r", "o", "w", " ", "w", "i", "t", "h", "o", "u", "t", " ", "b", "o", "u", "n", "d", ".">>)))
    @@ ("warnings" :> List(<<Str(<<"W", "a", "t", "c", "h", " ", "t", "h", "e", " ", "1", "6", "M", "B", " ", "l", "i", "m", "i", "t", ".">>)>>))
    @@ ("indexes" :> List(<<Dict(Lit_collection :> Str(<<"c", "o", "m", "m", "e", "n", "t", "s">>)),
                            Dict(Lit_collection :> Str(<<"p", "o", "s", "t", "s">>))>>))

\* what the generative service answers in the requests of the routers
RouterResponses == { Raises(<<"C", "o", "n", "n", "e", "c", "t", "i", "o", "n", " ", "e", "r", "r", "o", "r", ".">>) }
RouterRefinements == { Raises(<<"C", "o", "n", "n", "e", "c", "t", "i", "o", "n", " ", "e", "r", "r", "o", "r", ".">>), Object(refined_answer) }

\* the answers of the model to the prompts of one call of chat
ChatScripts ==
    { <<Raises(<<"C", "o", "n", "n", "e", "c", "t", "i", "o", "n", " ", "e", "r", "r", "o", "r", ".">>), Unparsed(<<"E", "x", "p", "e", "c", "t", "i", "n", "g", " ", "v", "a", "l", "u", "e">>), Object(valid_agent_answer)>>,
      <<Unparsed(<<"E", "x", "p", "e", "c", "t", "i", "n", "g", " ", "v", "a", "l", "u", "e">>), Object(Put(valid_agent_answer, "action", Str(<<"A", "S", "K", "_", "Q", "U", "E", "S", "T", "I", "O", "N">>))),
        Object(Put(valid_agent_answer, "warnings", List(<<>>)))>> }

\* the documents inserted and the calls of chat returned so far; a request is
\* served while this is below MaxWork
work_done == Len(schemaHistory) + Len(served)

router_env == [installed |-> FALSE, candidates |-> <<>>, uuid4 |-> <<"u", "1">>, now |-> <<"t", "1">>]

\* POST /schemas/generate up to the await of insert_one, lines 19-29
schemas_generate ==
    /\ Len(schemaHistory) < MaxDocuments /\ work_done < MaxWork
    /\ \E user \in Users, response \in RouterResponses :
          \E done \in {generate_schema(<<"b", "l", "o", "g", " ", "w", "i", "t", "h", " ", "P", "o", "s", "t", "s", " ", "a", "n", "d", " ", "C", "o", "m", "m", "e", "n", "t", "s">>, <<"b", "a", "l", "a", "n", "c", "e", "d">>, response,
                                       router_env)} :
             IF done.raised THEN UNCHANGED <<schemaHistory, handlers>>
             ELSE /\ schemaHistory' = insert_one(schemaHistory,
                        generated_document(user, <<"b", "l", "o", "g", " ", "w", "i", "t", "h", " ", "P", "o", "s", "t", "s", " ", "a", "n", "d", " ", "C", "o", "m", "m", "e", "n", "t", "s">>, <<"b", "a", "l", "a", "n", "c", "e", "d">>, done.out))
                  /\ handlers' = handlers \cup {Len(schemaHistory) + 1}
    /\ UNCHANGED <<pc, op, base_result, text, workload_type, calls, responses, out, path, raised,
                   fn, arg, ret, agents, _user_agents, served>>

\* POST /schemas/generate from update_one to the return, lines 30-36
schemas_generate_update ==
    /\ \E n \in handlers :
          /\ schemaHistory' = [schemaHistory EXCEPT ![n].rootId = Str(py_str(schemaHistory[n]._id))]
          /\ handlers' = handlers \ {n}
    /\ UNCHANGED <<pc, op, base_result, text, workload_type, calls, responses, out, path, raised,
                   fn, arg, ret, agents, _user_agents, served>>

\* POST /schemas/refine, lines 41-67; a request answered 404 or 500 leaves
\* the collection as it is
schemas_refine ==
    /\ Len(schemaHistory) < MaxDocuments /\ work_done < MaxWork
    /\ \E user \in Users, schema_id \in SchemaIds, answer \in RouterRefinements :
          LET object_id == to_object_id(schema_id)
              found == find_one(schemaHistory, object_id, {Str(user)})
              parent == schemaHistory[found]
          IN  IF object_id = None \/ found = 0 THEN UNCHANGED schemaHistory
              ELSE \E done \in apply_refinement(parent.result, <<"a", "d", "d", " ", "c", "o", "l", "l", "e", "c", "t", "i", "o", "n", " ", "n", "a", "m", "e", "d", " ", "r", "e", "v", "i", "e", "w", "s">>,
                                                parent.workloadType.s, <<answer>>, <<"u", "2">>, <<"t", "1">>) :
                      IF done.raised THEN UNCHANGED schemaHistory
                      ELSE schemaHistory' = insert_one(schemaHistory,
                              refined_document(user, parent, <<"a", "d", "d", " ", "c", "o", "l", "l", "e", "c", "t", "i", "o", "n", " ", "n", "a", "m", "e", "d", " ", "r", "e", "v", "i", "e", "w", "s">>,
                                               parent.workloadType.s, done.out))
    /\ UNCHANGED <<pc, op, base_result, text, workload_type, calls, responses, out, path, raised,
                   fn, arg, ret, handlers, agents, _user_agents, served>>

\* get_or_create_agent(user_id): the agents and the registry after, and the
\* position of the agent returned
get_or_create_agent(objects, registry, user_id) ==
    IF user_id \in DOMAIN registry
    THEN [agents |-> objects, _user_agents |-> registry, agent |-> registry[user_id]]
    ELSE [agents |-> Append(objects, SchemaDesignAgent(user_id)),
          _user_agents |-> Put(registry, user_id, Len(objects) + 1),
          agent |-> Len(objects) + 1]

\* delete_agent(user_id)
delete_agent(registry, user_id) == Del(registry, user_id)

AllUserIds == {Str(user) : user \in Users}

\* lines 40-48 of routers/agent.py: the current schema of a chat request
chat_context(collection, schema_id) ==
    IF schema_id = <<>> \/ to_object_id(schema_id) = None THEN None
    ELSE IF find_one(collection, to_object_id(schema_id), AllUserIds) = 0 THEN None
    ELSE collection[find_one(collection, to_object_id(schema_id), AllUserIds)].result

\* lines 70-83 of routers/agent.py
chat_refined_document(user, schema_doc, schema_id, message, result) ==
    [_id |-> None, userId |-> Str(user), inputText |-> schema_doc.inputText,
     workloadType |-> schema_doc.workloadType, result |-> result,
     version |-> Num((IF schema_doc.version.n = 0 THEN 1 ELSE schema_doc.version.n) + 1),
     parentId |-> Str(schema_id),
     refinementText |-> Str(message),
     rootId |-> IF schema_doc.rootId # None /\ schema_doc.rootId.s # <<>> THEN schema_doc.rootId
                ELSE Str(schema_id),
     by |-> "chat_with_agent"]

\* lines 94-101 of routers/agent.py
chat_generated_document(user, message, result) ==
    [_id |-> None, userId |-> Str(user), inputText |-> Str(message),
     workloadType |-> Str(<<"m", "i", "x", "e", "d">>), result |-> result, version |-> Num(1),
     parentId |-> None, refinementText |-> None, rootId |-> None, by |-> "chat_with_agent"]

\* lines 63-107 of routers/agent.py: the collection after the response of chat
chat_saved(collection, user, schema_id, message, response) ==
    IF response["schema"] = None \/ DOMAIN response["schema"] = {} THEN collection
    ELSE IF schema_id # <<>>
    THEN IF to_object_id(schema_id) = None
            \/ find_one(collection, to_object_id(schema_id), AllUserIds) = 0
         THEN collection
         ELSE insert_one(collection,
                  chat_refined_document(user,
                      collection[find_one(collection, to_object_id(schema_id), AllUserIds)],
                      schema_id, message, response["schema"]))
    ELSE IF response["action"] = Str(<<"G", "E", "N", "E", "R", "A", "T", "E", "_", "S", "C", "H", "E", "M", "A">>)
    THEN insert_one(collection, chat_generated_document(user, message, response["schema"]))
    ELSE collection

\* the schema_id of a chat request: none, the identifier of the first
\* document, or a text that is no identifier
ChatSchemaIds == { <<>>, py_str(inserted_id(1)), <<"n", "o", "t", "-", "a", "n", "-", "i", "d">> }

\* the message of a chat request
chat_message(schema_id) ==
    IF schema_id = <<>> THEN <<"b", "l", "o", "g", " ", "w", "i", "t", "h", " ", "P", "o", "s", "t", "s", " ", "a", "n", "d", " ", "C", "o", "m", "m", "e", "n", "t", "s">> ELSE <<"a", "d", "d", " ", "c", "o", "l", "l", "e", "c", "t", "i", "o", "n", " ", "n", "a", "m", "e", "d", " ", "r", "e", "v", "i", "e", "w", "s">>

\* POST /agent/chat, lines 33-116: agent.chat is a plain call, and no
\* document is changed between the two find_one of the handler
chat_with_agent ==
    /\ work_done < MaxWork /\ Len(served) < MaxChats
    /\ Len(schemaHistory) < MaxDocuments
    /\ \E user \in Users, schema_id \in ChatSchemaIds, script \in ChatScripts :
          LET got == get_or_create_agent(agents, _user_agents, user)
          IN  \E done \in chat(got.agents[got.agent], chat_message(schema_id),
                               chat_context(schemaHistory, schema_id), script,
                               Raises(<<"C", "o", "n", "n", "e", "c", "t", "i", "o", "n", " ", "e", "r", "r", "o", "r", ".">>)) :
                 /\ agents' = [got.agents EXCEPT ![got.agent] = done.agent]
                 /\ _user_agents' = got._user_agents
                 /\ schemaHistory' = chat_saved(schemaHistory, user, schema_id,
                                                chat_message(schema_id), done.response)
          /\ served' = Append(served, user)
    /\ UNCHANGED <<pc, op, base_result, text, workload_type, calls, responses, out, path, raised,
                   fn, arg, ret, handlers>>

\* POST /agent/reset, lines 119-124
reset_agent ==
    /\ \E user \in Users : _user_agents' = delete_agent(_user_agents, user)
    /\ UNCHANGED <<pc, op, base_result, text, workload_type, calls, responses, out, path, raised,
                   fn, arg, ret, schemaHistory, handlers, agents, served>>

NextApp ==
    \/ schemas_generate
    \/ schemas_generate_update
    \/ schemas_refine
    \/ chat_with_agent
    \/ reset_agent

SpecApp == Init /\ [][NextApp]_vars

\* the requests of routers/schema.py alone
NextSchemas ==
    \/ schemas_generate
    \/ schemas_generate_update
    \/ schemas_refine

SpecSchemas == Init /\ [][NextSchemas]_vars

---------------------------------------------------------------------------
(* The pure functions of the engine, each applied to an input drawn from a *)
(* bounded set.                                                            *)

CollectionNames == { <<"u", "s", "e", "r", "s">>, <<"p", "o", "s", "t", "s">> }

\* what a raw schema can hold for a collection
RawFields ==
    { Dict(EmptyMap),
      Dict(Lit_id :> Str(<<"s", "t", "r", "i", "n", "g">>)),
      Dict(Lit_id :> ObjectIdT),
      Dict((Lit_id :> Str(<<"o", "b", "j", "e", "c", "t", "i", "d">>)) @@ (<<"n", "a", "m", "e">> :> Str(<<"s", "t", "r">>))),
      Dict((<<"n", "a", "m", "e">> :> Str(<<"S", "t", "r", "i", "n", "g">>)) @@ (<<"t", "a", "g", "s">> :> List(<<Str(<<"s", "t", "r", "i", "n", "g">>)>>))),
      Dict((Lit_id :> Num(7)) @@ (<<"a", "c", "t", "i", "v", "e">> :> Bool(TRUE)) @@ (<<"n", "o", "t", "e">> :> None)
           @@ (<<"b", "i", "o">> :> Str(<<" ", "T", "e", "x", "t", " ">>)) @@ (<<"e", "m", "a", "i", "l">> :> Str(<<" ", "E", "m", "a", "i", "l", " ">>))),
      Dict((<<"r", "e", "f">> :> Str(<<"O", "b", "j", "e", "c", "t", " ", "I", "d">>))
           @@ (<<"i", "t", "e", "m", "s">> :> List(<<Dict((<<"q", "t", "y">> :> Str(<<"I", "N", "T">>)) @@ (<<"a", "t">> :> Str(<<"d", "a", "t", "e", "t", "i", "m", "e">>))),
                                    Str(<<"f", "l", "o", "a", "t">>)>>))
           @@ (<<"g", "r", "i", "d">> :> List(<<List(<<Num(1), Num(2)>>)>>))),
      Str(<<"x">>) }

RawSchemas ==
    {Dict(m) : m \in UNION {[names -> RawFields] : names \in (SUBSET CollectionNames) \ {{}}}}
    \cup {Dict(EmptyMap), None, List(<<>>)}

RelationshipInputs ==
    { Dict(EmptyMap),
      Dict(<<"U", "s", "e", "r", " ", "h", "a", "s", " ", "P", "o", "s", "t">> :> Str(<<"e", "m", "b", "e", "d">>)),
      Dict(<<"U", "s", "e", "r", " ", "h", "a", "s", " ", "P", "o", "s", "t">> :> Str(<<"O", "n", "e", "-", "t", "o", "-", "M", "a", "n", "y">>)),
      Dict((<<"U", "s", "e", "r", " ", "h", "a", "s", " ", "P", "o", "s", "t">> :> Str(<<"E", "M", "B", "E", "D", "D", "E", "D", " ", "d", "o", "c", "u", "m", "e", "n", "t">>)) @@ (<<"P", "o", "s", "t", " ", "h", "a", "s", " ", "C", "o", "m", "m", "e", "n", "t">> :> Num(1))),
      List(<<>>),
      List(<<Str(<<"U", "s", "e", "r", " ", "h", "a", "s", " ", "P", "o", "s", "t">>)>>),
      List(<<Str(<<"U", "s", "e", "r", " ", "h", "a", "s", " ", "P", "o", "s", "t">>), Num(3), Str(<<"P", "o", "s", "t", " ", "-", ">", " ", "C", "o", "m", "m", "e", "n", "t">>)>>) }

DecisionInputs ==
    { Dict(EmptyMap),
      Dict(<<"U", "s", "e", "r", " ", "h", "a", "s", " ", "P", "o", "s", "t">> :> Str(<<"->", " ", "R", "E", "F", "E", "R", "E", "N", "C", "E", " ", "-", " ", "u", "n", "b", "o", "u", "n", "d", "e", "d", " ", "g", "r", "o", "w", "t", "h">>)),
      Dict((<<"U", "s", "e", "r", " ", "h", "a", "s", " ", "P", "o", "s", "t">> :> Str(<<"->", " ", "E", "M", "B", "E", "D">>)) @@ (<<"P", "o", "s", "t", " ", "h", "a", "s", " ", "C", "o", "m", "m", "e", "n", "t">> :> Str(<<"d", "e", "n", "o", "r", "m", "a", "l", "i", "z", "e">>))),
      Dict((<<"U", "s", "e", "r", " ", "-", ">", " ", "P", "o", "s", "t">> :> Str(<<"s", "e", "p", "a", "r", "a", "t", "e">>)) @@ (<<"P", "o", "s", "t", " ", "-", ">", " ", "C", "o", "m", "m", "e", "n", "t">> :> Str(<<"E", "m", "b", "e", "d", " ", "i", "t">>))),
      Str(<<"x">>),
      None }

users_schema(age, tags) ==
    Dict(<<"u", "s", "e", "r", "s">> :> Dict((Lit_id :> ObjectIdT) @@ (<<"a", "g", "e">> :> Str(age)) @@ (<<"t", "a", "g", "s">> :> List(tags))))

\* users with the fields given besides _id and name
named_users(fields) ==
    Dict(<<"u", "s", "e", "r", "s">> :> Dict((Lit_id :> Str(<<"x">>)) @@ (<<"n", "a", "m", "e">> :> Str(<<"s", "t", "r", "i", "n", "g">>)) @@ fields))

\* users with email and an array of documents
tagged_users ==
    named_users((<<"e", "m", "a", "i", "l">> :> Str(<<"s", "t", "r", "i", "n", "g">>))
                @@ (<<"T", "a", "g", "s">> :> List(<<Dict((<<"l", "a", "b", "e", "l">> :> Str(<<"s", "t", "r", "i", "n", "g">>)) @@ (<<"a", "t">> :> Str(<<"d", "a", "t", "e">>))),
                                       Dict(<<"w", "e", "i", "g", "h", "t">> :> Str(<<"n", "u", "m", "b", "e", "r">>))>>)))

ComparedSchemas ==
    { Dict(EmptyMap),
      Dict(<<"u", "s", "e", "r", "s">> :> Dict(Lit_id :> ObjectIdT)),
      users_schema(<<"N", "u", "m", "b", "e", "r">>, <<Str(<<"S", "t", "r", "i", "n", "g">>)>>),
      users_schema(<<"S", "t", "r", "i", "n", "g">>, <<Str(<<"S", "t", "r", "i", "n", "g">>)>>),
      users_schema(<<"N", "u", "m", "b", "e", "r">>, <<Str(<<"N", "u", "m", "b", "e", "r">>)>>),
      users_schema(<<"N", "u", "m", "b", "e", "r">>, <<Str(<<"S", "t", "r", "i", "n", "g">>), Str(<<"N", "u", "m", "b", "e", "r">>)>>),
      named_users(EmptyMap),
      named_users(<<"e", "m", "a", "i", "l">> :> Str(<<"s", "t", "r", "i", "n", "g">>)),
      tagged_users }

\* a schema whose collections hold every form of key to the comments
keyed_schema ==
    Dict((<<"p", "o", "s", "t", "s">> :> Dict((Lit_id :> ObjectIdT) @@ (<<"c", "o", "m", "m", "e", "n", "t", "I", "d">> :> ObjectIdT)))
         @@ (<<"c", "o", "m", "m", "e", "n", "t", "s">> :> Dict((Lit_id :> ObjectIdT) @@ (<<"b", "o", "d", "y">> :> Str(<<"S", "t", "r", "i", "n", "g">>))))
         @@ (<<"u", "s", "e", "r", "s">> :> Dict((Lit_id :> ObjectIdT) @@ (<<"c", "o", "m", "m", "e", "n", "t", "s", "I", "d">> :> ObjectIdT)
                              @@ (<<"c", "o", "m", "m", "e", "n", "t", "I", "d", "s">> :> List(<<ObjectIdT>>)))))

EmbedTexts ==
    { <<"e", "m", "b", "e", "d", " ", "c", "o", "m", "m", "e", "n", "t", "s", " ", "i", "n", " ", "p", "o", "s", "t", "s">>,
      <<"k", "e", "e", "p", " ", "c", "o", "m", "m", "e", "n", "t", "s", " ", "i", "n", " ", "p", "o", "s", "t", "s", " ", "c", "o", "l", "l", "e", "c", "t", "i", "o", "n">>,
      <<"k", "e", "e", "p", " ", "c", "o", "m", "m", "e", "n", "t", " ", "i", "n", " ", "p", "o", "s", "t", " ", "o", "n", "l", "y">>,
      <<"a", "d", "d", " ", "e", "m", "a", "i", "l", " ", "t", "o", " ", "u", "s", "e", "r", "s">> }

EmbedResults ==
    { blog_answer,
      ("schema" :> keyed_schema),
      ("schema" :> keyed_schema) @@ ("entities" :> List(<<Str(<<"P", "o", "s", "t">>), Str(<<"C", "o", "m", "m", "e", "n", "t">>)>>))
          @@ ("decisions" :> Dict(<<"p", "o", "s", "t", "s">> :> Str(<<"->", " ", "S", "E", "P", "A", "R", "A", "T", "E", " ", "C", "O", "L", "L", "E", "C", "T", "I", "O", "N">>))) }

\* answers whose relationships are free text, a list, or nested in decisions
worded_answer ==
    ("schema" :> blog_schema)
    @@ ("relationships" :> Dict(<<"P", "o", "s", "t", " ", "h", "a", "s", " ", "C", "o", "m", "m", "e", "n", "t">> :> Str(<<"O", "n", "e", "-", "t", "o", "-", "M", "a", "n", "y">>)))
    @@ ("decisions" :> Dict(<<"P", "o", "s", "t", " ", "h", "a", "s", " ", "C", "o", "m", "m", "e", "n", "t">> :> Str(<<"E", "m", "b", "e", "d", "d", "e", "d", " ", "f", "o", "r", " ", "l", "o", "c", "a", "l", "i", "t", "y">>)))

listed_answer ==
    ("schema" :> blog_schema)
    @@ ("relationships" :> List(<<Str(<<"P", "o", "s", "t", " ", "-", ">", " ", "C", "o", "m", "m", "e", "n", "t", " ", "-", ">", " ", "1", ":", "N">>)>>))

nested_answer ==
    ("schema" :> blog_schema)
    @@ ("decisions" :> Dict(Lit_relationships :> Dict(<<"P", "o", "s", "t", " ", "h", "a", "s", " ", "C", "o", "m", "m", "e", "n", "t">> :> Str(<<"l", "i", "n", "k", "e", "d">>))))

\* an answer with a schema and neither relationships nor decisions
bare_answer == ("schema" :> blog_schema)

WordedResponses ==
    { Raises(<<"C", "o", "n", "n", "e", "c", "t", "i", "o", "n", " ", "e", "r", "r", "o", "r", ".">>), Object(worded_answer), Object(listed_answer), Object(nested_answer),
      Object(bare_answer) }

\* an answer whose decisions hold the relationships as a list
nested_list_answer ==
    ("schema" :> blog_schema)
    @@ ("decisions" :> Dict(Lit_relationships :> List(<<Str(<<"P", "o", "s", "t", " ", "-", ">", " ", "C", "o", "m", "m", "e", "n", "t", " ", "-", ">", " ", "1", ":", "N">>)>>)))

\* every shape of the relationships of an answer to the generation prompt
GenerateShapes == WordedResponses \cup {Object(nested_list_answer)}

\* refinement texts that ask for collections, and one that asks for a field
AddTexts ==
    { <<"a", "d", "d", " ", "c", "o", "l", "l", "e", "c", "t", "i", "o", "n", " ", "n", "a", "m", "e", "d", " ", "r", "e", "v", "i", "e", "w", "s">>,
      <<"a", "d", "d", " ", "r", "e", "v", "i", "e", "w", "s", ",", " ", "r", "a", "t", "i", "n", "g", "s">>,
      <<"a", "d", "d", " ", "f", "i", "e", "l", "d", " ", "e", "m", "a", "i", "l", " ", "t", "o", " ", "u", "s", "e", "r", "s">> }

\* requirement texts with a hint of each class, with "many" and "multiple", and with neither
DecisionTexts ==
    { <<"U", "s", "e", "r", "s", " ", "w", "i", "t", "h", " ", "a", " ", "p", "r", "o", "f", "i", "l", "e">>,
      <<"U", "s", "e", "r", "s", " ", "w", "i", "t", "h", " ", "m", "a", "n", "y", " ", "a", "d", "d", "r", "e", "s", "s", "e", "s">>,
      <<"C", "u", "s", "t", "o", "m", "e", "r", "s", " ", "p", "l", "a", "c", "e", " ", "m", "u", "l", "t", "i", "p", "l", "e", " ", "o", "r", "d", "e", "r", "s">>,
      <<"S", "t", "u", "d", "e", "n", "t", "s", " ", "t", "a", "k", "e", " ", "c", "o", "u", "r", "s", "e", "s">>,
      <<"U", "s", "e", "r", "s", " ", "h", "a", "v", "e", " ", "m", "a", "n", "y", " ", "w", "i", "d", "g", "e", "t", "s">>,
      <<"U", "s", "e", "r", "s", " ", "k", "e", "e", "p", " ", "m", "u", "l", "t", "i", "p", "l", "e", " ", "n", "o", "t", "e", "s">>,
      <<"A", " ", "s", "i", "m", "p", "l", "e", " ", "b", "l", "o", "g">>,
      <<"A", " ", "s", "i", "m", "p", "l", "e", " ", "s", "h", "o", "p">> }

RelationLabels ==
    { <<"U", "s", "e", "r", " ", "h", "a", "s", " ", "P", "r", "o", "f", "i", "l", "e">>, <<"U", "s", "e", "r", " ", "h", "a", "s", " ", "A", "c", "t", "i", "v", "i", "t", "y", " ", "L", "o", "g">>, <<"U", "s", "e", "r", " ", "h", "a", "s", " ", "O", "r", "d", "e", "r", " ", "H", "i", "s", "t", "o", "r", "y">>,
      <<"P", "o", "s", "t", " ", "h", "a", "s", " ", "m", "a", "n", "y", " ", "C", "o", "m", "m", "e", "n", "t">> }

RelationLists ==
    { <<>>,
      <<<<"U", "s", "e", "r", " ", "h", "a", "s", " ", "P", "r", "o", "f", "i", "l", "e">>>>,
      <<<<"U", "s", "e", "r", " ", "h", "a", "s", " ", "A", "c", "t", "i", "v", "i", "t", "y", " ", "L", "o", "g">>, <<"U", "s", "e", "r", " ", "h", "a", "s", " ", "P", "r", "o", "f", "i", "l", "e">>>>,
      <<<<"U", "s", "e", "r", " ", "h", "a", "s", " ", "O", "r", "d", "e", "r", " ", "H", "i", "s", "t", "o", "r", "y">>, <<"P", "o", "s", "t", " ", "h", "a", "s", " ", "m", "a", "n", "y", " ", "C", "o", "m", "m", "e", "n", "t">>, <<"U", "s", "e", "r", " ", "h", "a", "s", " ", "P", "r", "o", "f", "i", "l", "e">>>> }

\* the largest number of relationships of one kind given to the scores
MaxRelations == 18

\* label number i
relation_label(i) == <<"R", "e", "l", " ">> \o itoa(i)

\* decisions, growth and costs of a embedded relationships that grow, b
\* embedded ones that are bounded and r referenced ones
scored(a, b, r) ==
    LET labels == {relation_label(i) : i \in 1..(a + b + r)}
        choice == [i \in 1..(a + b + r) |-> IF i <= a + b THEN Lit_embed ELSE Lit_reference]
        growth == [i \in 1..(a + b + r) |->
                      IF i <= a THEN (IF i % 2 = 1 THEN Lit_unbounded ELSE Lit_large_array)
                      ELSE Lit_bounded]
        number(label) == CHOOSE i \in 1..(a + b + r) : relation_label(i) = label
    IN  [decisions |-> Dict([label \in labels |-> Str(choice[number(label)])]),
         growth_map |-> Dict([label \in labels |-> Str(growth[number(label)])]),
         query_costs |-> Dict([label \in labels |-> simulate_query_cost(choice[number(label)])])]

ScoreInputs ==
    {scored(a, b, r) : a \in {0, 1, 7}, b \in {0, 1}, r \in {0, 1, MaxRelations}}
    \cup {[decisions |-> Dict(<<"U", "s", "e", "r", " ", "h", "a", "s", " ", "P", "r", "o", "f", "i", "l", "e">> :> Str(Lit_embed)),
           growth_map |-> Dict(EmptyMap),
           query_costs |-> Dict(<<"U", "s", "e", "r", " ", "h", "a", "s", " ", "P", "r", "o", "f", "i", "l", "e">> :> simulate_query_cost(Lit_embed))]}

\* a stored result for the refinements to start from
stored_result ==
    generate_schema(<<"b", "l", "o", "g", " ", "w", "i", "t", "h", " ", "P", "o", "s", "t", "s", " ", "a", "n", "d", " ", "C", "o", "m", "m", "e", "n", "t", "s">>, <<"b", "a", "l", "a", "n", "c", "e", "d">>, Object(worded_answer),
                    [installed |-> FALSE, candidates |-> <<>>, uuid4 |-> <<"u", "1">>, now |-> <<"t", "1">>]).out

\* relations of every verb class, and the two that _schema places itself
PlacedRelations ==
    { <<"S", "t", "u", "d", "e", "n", "t", " ", "e", "n", "r", "o", "l", "l", "s", " ", "i", "n", " ", "C", "l", "a", "s", "s">>,
      <<"S", "t", "u", "d", "e", "n", "t", " ", "h", "a", "s", " ", "A", "t", "t", "e", "n", "d", "a", "n", "c", "e">>,
      <<"P", "a", "r", "e", "n", "t", " ", "g", "u", "a", "r", "d", "i", "a", "n", "s", " ", "S", "t", "u", "d", "e", "n", "t">>,
      <<"E", "x", "a", "m", " ", "b", "e", "l", "o", "n", "g", "s", " ", "t", "o", " ", "S", "u", "b", "j", "e", "c", "t">>,
      <<"T", "a", "s", "k", " ", "a", "s", "s", "i", "g", "n", "e", "d", " ", "t", "o", " ", "U", "s", "e", "r">>,
      <<"T", "e", "a", "c", "h", "e", "r", " ", "t", "e", "a", "c", "h", "e", "s", " ", "C", "l", "a", "s", "s">>,
      <<"C", "u", "s", "t", "o", "m", "e", "r", " ", "p", "l", "a", "c", "e", "s", " ", "O", "r", "d", "e", "r">>,
      <<"L", "i", "b", "r", "a", "r", "y", " ", "i", "n", "c", "l", "u", "d", "e", "s", " ", "B", "o", "o", "k">>,
      <<"C", "u", "s", "t", "o", "m", "e", "r", " ", "p", "u", "r", "c", "h", "a", "s", "e", "s", " ", "P", "r", "o", "d", "u", "c", "t">>,
      <<"O", "r", "d", "e", "r", " ", "c", "o", "n", "t", "a", "i", "n", "s", " ", "P", "r", "o", "d", "u", "c", "t">>,
      <<"U", "s", "e", "r", " ", "p", "l", "a", "c", "e", "s", " ", "O", "r", "d", "e", "r">> }

\* the entities of a relation: both, the subject alone, the object alone
PlacedEntities(relation) ==
    LET parts == str_split(relation)
    IN  { <<parts[1], parts[Len(parts)]>>, <<parts[1]>>, <<parts[Len(parts)]>> }

\* what the model can answer to a prompt of the agent: the call raises, the
\* text holds no JSON, it holds a list, it lacks the schema, it asks a
\* question, its warnings are empty, it has one index, or it is acceptable
AgentAnswers ==
    { Raises(<<"C", "o", "n", "n", "e", "c", "t", "i", "o", "n", " ", "e", "r", "r", "o", "r", ".">>),
      Unparsed(<<"E", "x", "p", "e", "c", "t", "i", "n", "g", " ", "v", "a", "l", "u", "e">>),
      Value(List(<<Num(1)>>)),
      Object(Del(valid_agent_answer, "schema")),
      Object(Put(valid_agent_answer, "action", Str(<<"A", "S", "K", "_", "Q", "U", "E", "S", "T", "I", "O", "N">>))),
      Object(Put(valid_agent_answer, "warnings", List(<<>>))),
      Object(Put(valid_agent_answer, "indexes", List(<<Dict(Lit_collection :> Str(<<"p", "o", "s", "t", "s">>))>>))),
      Object(valid_agent_answer) }

\* a stored result whose warnings are null
null_warnings_result ==
    generate_schema(<<"b", "l", "o", "g", " ", "w", "i", "t", "h", " ", "P", "o", "s", "t", "s", " ", "a", "n", "d", " ", "C", "o", "m", "m", "e", "n", "t", "s">>, <<"b", "a", "l", "a", "n", "c", "e", "d">>,
                    Object(Put(worded_answer, "warnings", None)),
                    [installed |-> FALSE, candidates |-> <<>>, uuid4 |-> <<"u", "1">>, now |-> <<"t", "1">>]).out

\* the current schema of a call of chat, by its name
stored_schema(name) ==
    IF name = "stored_result" THEN stored_result
    ELSE IF name = "null_warnings_result" THEN null_warnings_result
    ELSE None

\* the calls of chat: every three answers without a current schema, and the
\* answers that reach the final schema with one
ChatInputs ==
    {[user_message |-> <<"b", "l", "o", "g", " ", "w", "i", "t", "h", " ", "P", "o", "s", "t", "s", " ", "a", "n", "d", " ", "C", "o", "m", "m", "e", "n", "t", "s">>, current_schema |-> "None",
      answers |-> a, nested |-> Raises(<<"C", "o", "n", "n", "e", "c", "t", "i", "o", "n", " ", "e", "r", "r", "o", "r", ".">>)] :
        a \in [1..(MAX_RETRIES + 1) -> AgentAnswers]}
    \cup {[user_message |-> <<"a", "d", "d", " ", "c", "o", "l", "l", "e", "c", "t", "i", "o", "n", " ", "n", "a", "m", "e", "d", " ", "r", "e", "v", "i", "e", "w", "s">>, current_schema |-> c,
           answers |-> a, nested |-> n] :
            c \in {"stored_result", "null_warnings_result"},
            a \in {<<Object(valid_agent_answer), Object(valid_agent_answer), Object(valid_agent_answer)>>,
                   <<Unparsed(<<"E", "x", "p", "e", "c", "t", "i", "n", "g", " ", "v", "a", "l", "u", "e">>), Object(valid_agent_answer), Object(valid_agent_answer)>>},
            n \in {Raises(<<"C", "o", "n", "n", "e", "c", "t", "i", "o", "n", " ", "e", "r", "r", "o", "r", ".">>), Object(refined_answer)}}

PureInputs ==
    {[fn |-> "_normalize_schema", arg |-> raw] : raw \in RawSchemas}
    \cup {[fn |-> "_normalize_relationships",
           arg |-> [relationships_obj |-> r, decisions_obj |-> d]] :
             r \in RelationshipInputs, d \in DecisionInputs}
    \cup {[fn |-> "_schemas_equal", arg |-> [old_schema |-> a, new_schema |-> b]] :
             a \in ComparedSchemas, b \in ComparedSchemas}
    \cup {[fn |-> "_apply_force_embed_from_refinement",
           arg |-> [refinement_text |-> t, result |-> r]] :
             t \in EmbedTexts, r \in EmbedResults}
    \cup {[fn |-> "generate_schema",
           arg |-> [input_text |-> t, response |-> r]] :
             t \in InputTexts, r \in GenerateShapes}
    \cup {[fn |-> "apply_refinement",
           arg |-> [refinement_text |-> t, responses |-> <<r>>]] :
             t \in AddTexts, r \in WordedResponses}
    \cup {[fn |-> "detect_cardinality", arg |-> [input_text |-> t, relation |-> r]] :
             t \in DecisionTexts, r \in RelationLabels}
    \cup {[fn |-> "advanced_decision_engine", arg |-> [input_text |-> t, relationships |-> r]] :
             t \in DecisionTexts, r \in RelationLists}
    \cup {[fn |-> "future_risk_score", arg |-> s] : s \in ScoreInputs}
    \cup {[fn |-> "chat", arg |-> c] : c \in ChatInputs}
    \cup UNION {{[fn |-> "_schema", arg |-> [entities |-> e, relation |-> r, choice |-> c]] :
                    e \in PlacedEntities(r), c \in {Lit_embed, Lit_reference}} :
                 r \in PlacedRelations}

InitPure ==
    /\ \E input \in PureInputs : fn = input.fn /\ arg = input.arg
    /\ ret = None
    /\ pc = "drawn"
    /\ op = "none"
    /\ base_result = EmptyMap
    /\ text = <<>>
    /\ workload_type = <<>>
    /\ calls = 0
    /\ responses = <<>>
    /\ out = EmptyMap
    /\ path = "none"
    /\ raised = FALSE
    /\ schemaHistory = <<>>
    /\ handlers = {}
    /\ agents = <<>>
    /\ _user_agents = <<>>
    /\ served = <<>>

normalize_schema_returns ==
    /\ pc = "drawn" /\ fn = "_normalize_schema"
    /\ ret' = _normalize_schema(arg)
    /\ pc' = "applied"
    /\ UNCHANGED <<op, base_result, text, workload_type, calls, responses, out, path, raised, fn, arg>>
    /\ UNCHANGED app_vars

normalize_relationships_returns ==
    /\ pc = "drawn" /\ fn = "_normalize_relationships"
    /\ ret' = _normalize_relationships(arg.relationships_obj, arg.decisions_obj)
    /\ pc' = "applied"
    /\ UNCHANGED <<op, base_result, text, workload_type, calls, responses, out, path, raised, fn, arg>>
    /\ UNCHANGED app_vars

\* lines 1067-1068: the diff and the equality of the same two schemas
schema_comparison_returns ==
    /\ pc = "drawn" /\ fn = "_schemas_equal"
    /\ ret' = [diff |-> _diff_schema(arg.old_schema, arg.new_schema),
               equal |-> _schemas_equal(arg.old_schema, arg.new_schema)]
    /\ pc' = "applied"
    /\ UNCHANGED <<op, base_result, text, workload_type, calls, responses, out, path, raised, fn, arg>>
    /\ UNCHANGED app_vars

force_embed_returns ==
    /\ pc = "drawn" /\ fn = "_apply_force_embed_from_refinement"
    /\ ret' \in _apply_force_embed_from_refinement(arg.refinement_text, arg.result)
    /\ pc' = "applied"
    /\ UNCHANGED <<op, base_result, text, workload_type, calls, responses, out, path, raised, fn, arg>>
    /\ UNCHANGED app_vars

generate_schema_returns ==
    /\ pc = "drawn" /\ fn = "generate_schema"
    /\ \E nlp \in Pipelines :
          ret' = generate_schema(arg.input_text, <<"b", "a", "l", "a", "n", "c", "e", "d">>, arg.response,
                                 [installed |-> nlp.installed, candidates |-> nlp.candidates,
                                  uuid4 |-> <<"u", "1">>, now |-> <<"t", "1">>])
    /\ pc' = "applied"
    /\ UNCHANGED <<op, base_result, text, workload_type, calls, responses, out, path, raised, fn, arg>>
    /\ UNCHANGED app_vars

apply_refinement_returns ==
    /\ pc = "drawn" /\ fn = "apply_refinement"
    /\ \E done \in apply_refinement(stored_result, arg.refinement_text, <<"b", "a", "l", "a", "n", "c", "e", "d">>, arg.responses,
                                    <<"u", "2">>, <<"t", "1">>) :
          /\ ret' = done
          /\ base_result' \in base_result_after(stored_result, arg.refinement_text, done.path)
    /\ pc' = "applied"
    /\ UNCHANGED <<op, text, workload_type, calls, responses, out, path, raised, fn, arg>>
    /\ UNCHANGED app_vars

detect_cardinality_returns ==
    /\ pc = "drawn" /\ fn = "detect_cardinality"
    /\ ret' = detect_cardinality(arg.input_text, arg.relation)
    /\ pc' = "applied"
    /\ UNCHANGED <<op, base_result, text, workload_type, calls, responses, out, path, raised, fn, arg>>
    /\ UNCHANGED app_vars

\* the first call of the engine in the process
decision_engine_returns ==
    /\ pc = "drawn" /\ fn = "advanced_decision_engine"
    /\ ret' = advanced_decision_engine(arg.input_text, arg.relationships)
    /\ calls' = calls + 1
    /\ pc' = "applied"
    /\ UNCHANGED <<op, base_result, text, workload_type, responses, out, path, raised, fn, arg>>
    /\ UNCHANGED app_vars

\* a second call with the same arguments; both results are kept
decision_engine_repeats ==
    /\ pc = "applied" /\ fn = "advanced_decision_engine"
    /\ ret' = [first |-> ret, second |-> advanced_decision_engine(arg.input_text, arg.relationships)]
    /\ calls' = calls + 1
    /\ pc' = "repeated"
    /\ UNCHANGED <<op, base_result, text, workload_type, responses, out, path, raised, fn, arg>>
    /\ UNCHANGED app_vars

\* lines 880-881: the two scores of the same mappings
scores_return ==
    /\ pc = "drawn" /\ fn = "future_risk_score"
    /\ ret' = [risk |-> future_risk_score(arg.decisions, arg.growth_map),
               performance |-> performance_index(arg.query_costs)]
    /\ pc' = "applied"
    /\ UNCHANGED <<op, base_result, text, workload_type, calls, responses, out, path, raised, fn, arg>>
    /\ UNCHANGED app_vars

\* lines 671-697 for the decisions of one relation
schema_returns ==
    /\ pc = "drawn" /\ fn = "_schema"
    /\ ret' = _schema(arg.entities, <<arg.relation>>, Dict(arg.relation :> Str(arg.choice)))
    /\ pc' = "applied"
    /\ UNCHANGED <<op, base_result, text, workload_type, calls, responses, out, path, raised, fn, arg>>
    /\ UNCHANGED app_vars

\* one call of chat on a new agent
chat_returns ==
    /\ pc = "drawn" /\ fn = "chat"
    /\ ret' \in chat(SchemaDesignAgent(<<"a", "l", "i", "c", "e">>), arg.user_message, stored_schema(arg.current_schema),
                     arg.answers,
                     arg.nested)
    /\ pc' = "applied"
    /\ UNCHANGED <<op, base_result, text, workload_type, calls, responses, out, path, raised, fn, arg>>
    /\ UNCHANGED app_vars

NextPure ==
    \/ normalize_schema_returns
    \/ normalize_relationships_returns
    \/ schema_comparison_returns
    \/ force_embed_returns
    \/ generate_schema_returns
    \/ apply_refinement_returns
    \/ detect_cardinality_returns
    \/ decision_engine_returns
    \/ decision_engine_repeats
    \/ scores_return
    \/ schema_returns
    \/ chat_returns

SpecPure == InitPure /\ [][NextPure]_vars

---------------------------------------------------------------------------
(* The properties.                                                         *)

\* every collection of the schema holds the identity field
has_identity(schema) ==
    \A collection \in DOMAIN schema.f :
        isinstance(schema.f[collection], "dict") /\ Lit_id \in DOMAIN schema.f[collection].f

\* every value of the mapping is embed or reference
embed_or_reference(relationships) ==
    /\ isinstance(relationships, "dict")
    /\ \A relation \in DOMAIN relationships.f :
          relationships.f[relation] \in {Str(Lit_embed), Str(Lit_reference)}

\* the list holds a text that contains e
mentions(warnings, e) ==
    /\ isinstance(warnings, "list")
    /\ \E i \in DOMAIN warnings.l : isinstance(warnings.l[i], "str") /\ str_in(e, warnings.l[i].s)

\* C1: a refinement that returns, by the generative path or by the fallback,
\* carries the schemaVersion of its base plus one, and the schemaVersionId of
\* its base as previousVersionId.
C1_refinement_versioning ==
    (pc = "returned" /\ op = "refine" /\ ~raised) =>
        /\ out["schemaVersion"] = Num(version_of(base_result) + 1)
        /\ out["previousVersionId"] = base_result["schemaVersionId"]

C1_fallback_refinement_returned ==
    /\ pc = "returned" /\ op = "refine" /\ ~raised /\ path = "fallback"
    /\ version_of(base_result) = 1
    /\ version_of(out) = 2
    /\ isinstance(out["previousVersionId"], "str")

\* C2: when every generative call raises, generate_schema and
\* apply_refinement return (no exception leaves them) a result whose
\* collections all hold the identity field, whose relationships are embed or
\* reference, and whose warnings are not empty and hold the text of the error.
C2_fallback_guarantee ==
    (/\ pc = "returned"
     /\ \A i \in DOMAIN responses : responses[i].kind = "raises") =>
        /\ ~raised
        /\ has_identity(out["schema"])
        /\ embed_or_reference(out["relationships"])
        /\ mentions(out["warnings"], responses[Len(responses)].err)

\* C3: every collection of _normalize_schema(raw) holds the identity field
\* _id, and its type is ObjectId, whatever raw gave for it.
C3_identity_is_ObjectId ==
    (pc = "applied" /\ fn = "_normalize_schema") =>
        /\ has_identity(ret)
        /\ \A collection \in DOMAIN ret.f : ret.f[collection].f[Lit_id] = ObjectIdT

\* C4: for relationships given as a mapping or a list and any decisions,
\* every value of _normalize_relationships is embed or reference; so is every
\* value of the relationships of a result of generate_schema or
\* apply_refinement.
C4_relationship_values ==
    /\ (pc = "applied" /\ fn = "_normalize_relationships") => embed_or_reference(ret)
    /\ (pc = "applied" /\ fn \in {"generate_schema", "apply_refinement"} /\ ~ret.raised) =>
           embed_or_reference(ret.out["relationships"])

C4_free_text_normalized ==
    /\ pc = "applied" /\ fn = "_normalize_relationships"
    /\ arg.relationships_obj = Dict(<<"U", "s", "e", "r", " ", "h", "a", "s", " ", "P", "o", "s", "t">> :> Str(<<"O", "n", "e", "-", "t", "o", "-", "M", "a", "n", "y">>))
    /\ arg.decisions_obj = Dict(EmptyMap)
    /\ ret = Dict(<<"U", "s", "e", "r", " ", "h", "a", "s", " ", "P", "o", "s", "t">> :> Str(Lit_reference))

\* the last call raised, or the strict call gave an object without schema
last_call_failed ==
    \/ responses[Len(responses)].kind = "raises"
    \/ Len(responses) = 2 /\ lacks_schema(_run_refinement_llm(responses[2]))

\* C5: apply_refinement calls the generative service at most twice; it calls
\* a second time exactly when the first call gave a JSON object without a
\* schema key; when the second answer lacks the schema too, or a call raises,
\* it calls no more and returns the result of the fallback.
C5_bounded_retry ==
    op = "refine" =>
        /\ calls <= 2 /\ calls = Len(responses)
        /\ Len(responses) = 2 =>
               responses[1].kind = "object" /\ "schema" \notin DOMAIN responses[1].object
        /\ (pc \in {"answered", "returned"} /\ Len(responses) = 1) =>
               ~(responses[1].kind = "object" /\ "schema" \notin DOMAIN responses[1].object)
        /\ (pc = "returned" /\ last_call_failed) => (~raised /\ path = "fallback")

\* C6: _schemas_equal(old, new) holds exactly when _diff_schema(old, new) has
\* nothing added and nothing removed.
C6_equal_iff_empty_diff ==
    (pc = "applied" /\ fn = "_schemas_equal") =>
        (ret.equal <=> (ret.diff.added = <<>> /\ ret.diff.removed = <<>>))

\* the summary the answer gave and the schema of the base, normalized
given_summary == Get(responses[Len(responses)].object, "refinementSummary", None)
base_schema == _normalize_schema(Get(base_result, "schema", Dict(EmptyMap)))

\* what the refinement protocol says of a summary that must not be kept
must_be_rejected(summary, changed) ==
    \/ ~isinstance(summary, "str")
    \/ Len(summary.s) < 30
    \/ \E phrase \in forbidden : str_in(phrase, str_lower(summary.s))
    \/ changed /\ str_startswith(str_lower(summary.s), <<"n", "o", " ", "s", "c", "h", "e", "m", "a", " ", "c", "h", "a", "n", "g", "e", "s">>)
    \/ /\ ~changed
       /\ ~str_startswith(str_lower(summary.s), <<"n", "o", " ", "s", "c", "h", "e", "m", "a", " ", "c", "h", "a", "n", "g", "e", "s">>)
       /\ ~str_startswith(str_lower(summary.s), <<"c", "a", "n", "n", "o", "t", " ", "i", "m", "p", "l", "e", "m", "e", "n", "t">>)

\* C7: on the generative path the summary of the answer is replaced by the
\* deterministic summary whenever it is not a string, is shorter than 30
\* characters, holds a boilerplate phrase, starts with "no schema changes"
\* though the schema changed, or starts with neither "no schema changes" nor
\* "cannot implement" though the schema did not change.
C7_summary_replaced ==
    (/\ pc = "returned" /\ op = "refine" /\ path = "llm"
     /\ must_be_rejected(given_summary, out["schema"] # base_schema)) =>
        out["refinementSummary"] =
            Str(_generate_summary(_schema_metrics(base_schema), _schema_metrics(out["schema"]),
                                  _diff_schema(base_schema, out["schema"]),
                                  out["schema"] # base_schema))

\* C8: on the fallback path the rules for the refinement text are applied to
\* the copy of the previous schema: after "remove collection X" the returned
\* schema holds no X.
C8_fallback_removes_collection ==
    (pc = "returned" /\ op = "refine" /\ path = "fallback" /\ ~raised) =>
        \A collection \in DOMAIN base_schema.f :
            text = <<"r", "e", "m", "o", "v", "e", " ", "c", "o", "l", "l", "e", "c", "t", "i", "o", "n", " ">> \o collection => collection \notin DOMAIN out["schema"].f

\* the schema the forced rules work on: the answer's on the generative path,
\* the base's on the fallback path
processed_schema ==
    IF path = "llm" THEN responses[Len(responses)].object["schema"] ELSE base_result["schema"]

\* C9: after "embed comments in posts" or "keep comments in posts collection",
\* with both collections in the schema the rules work on, the returned schema
\* has no comments, posts holds the array comments of the fields of comments
\* other than _id, and the relationship of posts and comments is embed.
C9_forced_embed ==
    (/\ pc = "returned" /\ op = "refine" /\ ~raised
     /\ text \in {<<"e", "m", "b", "e", "d", " ", "c", "o", "m", "m", "e", "n", "t", "s", " ", "i", "n", " ", "p", "o", "s", "t", "s">>, <<"k", "e", "e", "p", " ", "c", "o", "m", "m", "e", "n", "t", "s", " ", "i", "n", " ", "p", "o", "s", "t", "s", " ", "c", "o", "l", "l", "e", "c", "t", "i", "o", "n">>}
     /\ {<<"c", "o", "m", "m", "e", "n", "t", "s">>, <<"p", "o", "s", "t", "s">>} \subseteq DOMAIN processed_schema.f) =>
        /\ <<"c", "o", "m", "m", "e", "n", "t", "s">> \notin DOMAIN out["schema"].f
        /\ <<"c", "o", "m", "m", "e", "n", "t", "s">> \in DOMAIN out["schema"].f[<<"p", "o", "s", "t", "s">>].f
        /\ isinstance(out["schema"].f[<<"p", "o", "s", "t", "s">>].f[<<"c", "o", "m", "m", "e", "n", "t", "s">>], "list")
        /\ \A i \in DOMAIN out["schema"].f[<<"p", "o", "s", "t", "s">>].f[<<"c", "o", "m", "m", "e", "n", "t", "s">>].l :
              DOMAIN out["schema"].f[<<"p", "o", "s", "t", "s">>].f[<<"c", "o", "m", "m", "e", "n", "t", "s">>].l[i].f
                  = DOMAIN processed_schema.f[<<"c", "o", "m", "m", "e", "n", "t", "s">>].f \ {Lit_id}
        /\ \A relation \in DOMAIN out["relationships"].f :
              (str_in(<<"P", "o", "s", "t">>, relation) /\ str_in(<<"C", "o", "m", "m", "e", "n", "t">>, relation)) =>
                  out["relationships"].f[relation] = Str(Lit_embed)

\* C10: after the forced move of comments into posts no collection of the
\* schema keeps a key to the comments, commentId or commentIds.
C10_no_dangling_keys ==
    (/\ pc = "applied" /\ fn = "_apply_force_embed_from_refinement"
     /\ <<"c", "o", "m", "m", "e", "n", "t", "s">> \in DOMAIN arg.result["schema"].f
     /\ <<"c", "o", "m", "m", "e", "n", "t", "s">> \notin DOMAIN ret["schema"].f) =>
        \A collection \in DOMAIN ret["schema"].f :
            isinstance(ret["schema"].f[collection], "dict") =>
                DOMAIN ret["schema"].f[collection].f \cap {<<"c", "o", "m", "m", "e", "n", "t", "I", "d">>, <<"c", "o", "m", "m", "e", "n", "t", "I", "d", "s">>} = {}

\* the collection holds the identity field and decisions has an entry for it
collection_added(result, collection) ==
    /\ collection \in DOMAIN result["schema"].f
    /\ isinstance(result["schema"].f[collection], "dict")
    /\ Lit_id \in DOMAIN result["schema"].f[collection].f
    /\ isinstance(result["decisions"], "dict")
    /\ collection \in DOMAIN result["decisions"].f

\* C11: after "add collection named reviews" or "add reviews, ratings" on a
\* base without those collections, the result of apply_refinement (generative
\* path or fallback) holds each named collection, pluralized, with the identity
\* field, and decisions has an entry for each; after "add field email to
\* users", which names no collection, the result holds no new collection.
C11_forced_add ==
    (pc = "applied" /\ fn = "apply_refinement" /\ ~ret.raised) =>
        /\ arg.refinement_text = <<"a", "d", "d", " ", "c", "o", "l", "l", "e", "c", "t", "i", "o", "n", " ", "n", "a", "m", "e", "d", " ", "r", "e", "v", "i", "e", "w", "s">> =>
               collection_added(ret.out, <<"r", "e", "v", "i", "e", "w", "s">>)
        /\ arg.refinement_text = <<"a", "d", "d", " ", "r", "e", "v", "i", "e", "w", "s", ",", " ", "r", "a", "t", "i", "n", "g", "s">> =>
               collection_added(ret.out, <<"r", "e", "v", "i", "e", "w", "s">>) /\ collection_added(ret.out, <<"r", "a", "t", "i", "n", "g", "s">>)
        /\ arg.refinement_text = <<"a", "d", "d", " ", "f", "i", "e", "l", "d", " ", "e", "m", "a", "i", "l", " ", "t", "o", " ", "u", "s", "e", "r", "s">> =>
               DOMAIN ret.out["schema"].f = DOMAIN blog_schema.f

\* C12: every result of generate_schema, from the generative answer or from
\* the fallback, has schemaVersion 1 and previousVersionId null.
C12_new_schema_is_version_1 ==
    (pc = "applied" /\ fn = "generate_schema" /\ ~ret.raised) =>
        /\ ret.out["schemaVersion"] = Num(1)
        /\ ret.out["previousVersionId"] = None

C12_fallback_schema_generated ==
    /\ pc = "applied" /\ fn = "generate_schema" /\ ~ret.raised
    /\ ret.path = "fallback"
    /\ arg.response.kind = "raises"
    /\ ret.out["schemaVersion"] = Num(1)
    /\ ret.out["schemaVersionId"] = Str(<<"u", "1">>)

C14_embed_only_non_temporal_few ==
    (pc = "applied" /\ fn = "advanced_decision_engine") =>
        \A i \in DOMAIN arg.relationships :
            LET rel == arg.relationships[i]
                few == detect_cardinality(arg.input_text, rel) \in {"one_to_one", "one_to_few"}
            IN  /\ ret.decisions.f[rel] \in {Str(Lit_embed), Str(Lit_reference)}
                /\ ret.decisions.f[rel] = Str(Lit_embed) <=> (few /\ ~detect_temporal_data(rel))

C14_temporal_label_referenced ==
    /\ pc = "applied" /\ fn = "advanced_decision_engine"
    /\ arg.input_text = <<"U", "s", "e", "r", "s", " ", "w", "i", "t", "h", " ", "a", " ", "p", "r", "o", "f", "i", "l", "e">>
    /\ arg.relationships = <<<<"U", "s", "e", "r", " ", "h", "a", "s", " ", "A", "c", "t", "i", "v", "i", "t", "y", " ", "L", "o", "g">>, <<"U", "s", "e", "r", " ", "h", "a", "s", " ", "P", "r", "o", "f", "i", "l", "e">>>>
    /\ ret.decisions.f[<<"U", "s", "e", "r", " ", "h", "a", "s", " ", "A", "c", "t", "i", "v", "i", "t", "y", " ", "L", "o", "g">>] = Str(Lit_reference)
    /\ ret.decisions.f[<<"U", "s", "e", "r", " ", "h", "a", "s", " ", "P", "r", "o", "f", "i", "l", "e">>] = Str(Lit_embed)

\* the class of the first entry of CARDINALITY_HINTS with a keyword in the
\* lowered text, "none" without one
hinted_class(t) ==
    LET found == {i \in DOMAIN CARDINALITY_HINTS : \E h \in CARDINALITY_HINTS[i].hints : str_in(h, t)}
    IN  IF found = {} THEN "none" ELSE CARDINALITY_HINTS[Min(found)].card

\* C15: detect_cardinality gives many_to_many whenever "many" or "multiple" is
\* in the text, also when the text holds a hint keyword of another class;
\* without those words it gives the class of the hint keyword found, and
\* one_to_many when none is found.
C15_many_overrides_hints ==
    (pc = "applied" /\ fn = "detect_cardinality") =>
        LET t == str_lower(arg.input_text)
        IN  ret = IF str_in(Lit_many, t) \/ str_in(Lit_multiple, t) THEN "many_to_many"
                  ELSE IF hinted_class(t) # "none" THEN hinted_class(t)
                  ELSE "one_to_many"

chosen(decisions, choice) == {rel \in DOMAIN decisions.f : decisions.f[rel] = Str(choice)}

\* C19: the risk score is min(100, 15 * embedded relationships whose growth
\* is not bounded + 5 * referenced relationships); the performance index is
\* max(0, 100 - costs), where an embedded relationship costs 1 + 4 + 0 and a
\* referenced one 3 + 1 + 2; both lie in 0..100.
C19_scores ==
    (pc = "applied" /\ fn = "future_risk_score") =>
        LET growing == {rel \in chosen(arg.decisions, Lit_embed) :
                           rel \notin DOMAIN arg.growth_map.f
                           \/ arg.growth_map.f[rel] # Str(Lit_bounded)}
            risk == 15 * Cardinality(growing) + 5 * Cardinality(chosen(arg.decisions, Lit_reference))
            costs == (1 + 4 + 0) * Cardinality(chosen(arg.decisions, Lit_embed))
                     + (3 + 1 + 2) * Cardinality(chosen(arg.decisions, Lit_reference))
        IN  /\ ret.risk = IF risk > 100 THEN 100 ELSE risk
            /\ ret.performance = IF costs > 100 THEN 0 ELSE 100 - costs
            /\ ret.risk \in 0..100
            /\ ret.performance \in 0..100

C19_cap_and_floor_reached ==
    /\ pc = "applied" /\ fn = "future_risk_score"
    /\ Cardinality(chosen(arg.decisions, Lit_embed)) = 8
    /\ Cardinality(chosen(arg.decisions, Lit_reference)) = MaxRelations
    /\ ret.risk = 100
    /\ ret.performance = 0

\* the sequence of strings ascends without repetition
ascending(q) == \A i \in 1..(Len(q) - 1) : str_less(q[i], q[i + 1])

\* C18: _diff_schema gives as added the paths of new that old lacks and as
\* removed the paths of old that new lacks, each in ascending order; an array
\* field gives its own path and the fields of its element under that path
\* with [] appended.  Adding email to users gives added = ["users.email"] and
\* removed = [].
C18_diff_is_path_difference ==
    (pc = "applied" /\ fn = "_schemas_equal") =>
        /\ Range(ret.diff.added)
               = Range(_extract_paths(arg.new_schema)) \ Range(_extract_paths(arg.old_schema))
        /\ Range(ret.diff.removed)
               = Range(_extract_paths(arg.old_schema)) \ Range(_extract_paths(arg.new_schema))
        /\ ascending(ret.diff.added) /\ ascending(ret.diff.removed)
        /\ (arg.old_schema = named_users(EmptyMap)
            /\ arg.new_schema = named_users(<<"e", "m", "a", "i", "l">> :> Str(<<"s", "t", "r", "i", "n", "g">>))) =>
               ret.diff = [added |-> <<<<"u", "s", "e", "r", "s", ".", "e", "m", "a", "i", "l">>>>, removed |-> <<>>]
        /\ (arg.old_schema = named_users(EmptyMap) /\ arg.new_schema = tagged_users) =>
               ret.diff = [added |-> <<<<"u", "s", "e", "r", "s", ".", "T", "a", "g", "s">>, <<"u", "s", "e", "r", "s", ".", "T", "a", "g", "s", "[", "]", ".", "a", "t">>, <<"u", "s", "e", "r", "s", ".", "T", "a", "g", "s", "[", "]", ".", "l", "a", "b", "e", "l">>,
                                       <<"u", "s", "e", "r", "s", ".", "e", "m", "a", "i", "l">>>>,
                           removed |-> <<>>]

C18_email_added ==
    /\ pc = "applied" /\ fn = "_schemas_equal"
    /\ arg.old_schema = named_users(EmptyMap)
    /\ arg.new_schema = named_users(<<"e", "m", "a", "i", "l">> :> Str(<<"s", "t", "r", "i", "n", "g">>))
    /\ ret.diff.added = <<<<"u", "s", "e", "r", "s", ".", "e", "m", "a", "i", "l">>>>
    /\ ret.diff.removed = <<>>

\* C17: _normalize_schema is idempotent: normalizing its result gives the
\* result again.
C17_normalize_idempotent ==
    (pc = "applied" /\ fn = "_normalize_schema") => _normalize_schema(ret) = ret

C17_types_rewritten_once ==
    /\ pc = "applied" /\ fn = "_normalize_schema"
    /\ isinstance(arg, "dict") /\ DOMAIN arg.f = {<<"u", "s", "e", "r", "s">>}
    /\ isinstance(arg.f[<<"u", "s", "e", "r", "s">>], "dict") /\ <<"b", "i", "o">> \in DOMAIN arg.f[<<"u", "s", "e", "r", "s">>].f
    /\ arg.f[<<"u", "s", "e", "r", "s">>].f[<<"b", "i", "o">>] = Str(<<" ", "T", "e", "x", "t", " ">>)
    /\ ret.f[<<"u", "s", "e", "r", "s">>].f[<<"b", "i", "o">>] = Str(<<"s", "t", "r", "i", "n", "g">>)
    /\ ret.f[<<"u", "s", "e", "r", "s">>].f[<<"e", "m", "a", "i", "l">>] = Str(<<" ", "E", "m", "a", "i", "l", " ">>)
    /\ ret.f[<<"u", "s", "e", "r", "s">>].f[Lit_id] = Str(<<"n", "u", "m", "b", "e", "r">>)
    /\ ret # arg
    /\ _normalize_schema(ret) = ret

\* the name a key field refers to: the field without its suffix Ids, Id or
\* _id; the empty text for every other field and for _id itself
key_base(field) ==
    IF str_endswith(field, <<"I", "d", "s">>) THEN SubSeq(field, 1, Len(field) - 3)
    ELSE IF str_endswith(field, <<"I", "d">>) THEN SubSeq(field, 1, Len(field) - 2)
    ELSE IF str_endswith(field, <<"_", "i", "d">>) /\ field # Lit_id THEN SubSeq(field, 1, Len(field) - 3)
    ELSE <<>>

\* C20: when the answer gives neither relationships nor decisions, so that
\* their normalization is empty, the relationships of the result of
\* generate_schema are derived from the schema: every field ending in Id, _id
\* or Ids, other than _id, gives a relationship from its collection to the
\* pluralized base name of the field.
C20_relationships_from_keys ==
    (/\ pc = "applied" /\ fn = "generate_schema" /\ ~ret.raised /\ ret.path = "llm"
     /\ "relationships" \notin DOMAIN arg.response.object
     /\ "decisions" \notin DOMAIN arg.response.object) =>
        \A collection \in DOMAIN ret.out["schema"].f :
            \A field \in DOMAIN ret.out["schema"].f[collection].f :
                Len(key_base(field)) > 0 =>
                    \E relation \in DOMAIN ret.out["relationships"].f :
                        /\ str_startswith(relation, collection)
                        /\ str_endswith(relation, _pluralize(key_base(field)))

\* C30: in one call of advanced_decision_engine the cardinality comes from
\* the text alone, so two relationships whose labels are not temporal get the
\* same choice; two relationships get different choices only when exactly one
\* of them has a temporal label.
C30_choice_differs_only_by_temporal ==
    (pc = "applied" /\ fn = "advanced_decision_engine") =>
        \A i, j \in DOMAIN arg.relationships :
            LET a == arg.relationships[i]
                b == arg.relationships[j]
            IN  /\ (~detect_temporal_data(a) /\ ~detect_temporal_data(b)) =>
                       ret.decisions.f[a] = ret.decisions.f[b]
                /\ ret.decisions.f[a] # ret.decisions.f[b] =>
                       (detect_temporal_data(a) # detect_temporal_data(b))

C30_three_relationships_decided ==
    /\ pc = "applied" /\ fn = "advanced_decision_engine"
    /\ arg.input_text = <<"U", "s", "e", "r", "s", " ", "w", "i", "t", "h", " ", "a", " ", "p", "r", "o", "f", "i", "l", "e">>
    /\ Len(arg.relationships) = 3
    /\ ret.decisions.f[<<"U", "s", "e", "r", " ", "h", "a", "s", " ", "P", "r", "o", "f", "i", "l", "e">>] = Str(Lit_embed)
    /\ ret.decisions.f[<<"P", "o", "s", "t", " ", "h", "a", "s", " ", "m", "a", "n", "y", " ", "C", "o", "m", "m", "e", "n", "t">>] = Str(Lit_embed)
    /\ ret.decisions.f[<<"U", "s", "e", "r", " ", "h", "a", "s", " ", "O", "r", "d", "e", "r", " ", "H", "i", "s", "t", "o", "r", "y">>] = Str(Lit_reference)

\* C29: in every output of generate_schema and apply_refinement, on every
\* path, queryCostAnalysis and growthRiskMap have exactly the keys of
\* relationships; on the fallback path of generate_schema relationships[label]
\* equals decisions[label] and queryCostAnalysis[label] is the cost triple of
\* that choice.
C29_engine_maps_keyed_by_relationships ==
    (pc = "applied" /\ fn \in {"generate_schema", "apply_refinement"} /\ ~ret.raised) =>
        /\ DOMAIN ret.out["queryCostAnalysis"].f = DOMAIN ret.out["relationships"].f
        /\ DOMAIN ret.out["growthRiskMap"].f = DOMAIN ret.out["relationships"].f
        /\ (fn = "generate_schema" /\ ret.path = "fallback") =>
              \A label \in DOMAIN ret.out["relationships"].f :
                  /\ ret.out["relationships"].f[label] = ret.out["decisions"].f[label]
                  /\ ret.out["queryCostAnalysis"].f[label]
                        = simulate_query_cost(ret.out["relationships"].f[label].s)

C29_fallback_relationship_costed ==
    /\ pc = "applied" /\ fn = "generate_schema" /\ ~ret.raised /\ ret.path = "fallback"
    /\ <<"S", "t", "u", "d", "e", "n", "t", " ", "e", "n", "r", "o", "l", "l", "s", " ", "i", "n", " ", "C", "l", "a", "s", "s">> \in DOMAIN ret.out["relationships"].f
    /\ ret.out["queryCostAnalysis"].f[<<"S", "t", "u", "d", "e", "n", "t", " ", "e", "n", "r", "o", "l", "l", "s", " ", "i", "n", " ", "C", "l", "a", "s", "s">>].f[Lit_join_cost] = Num(2)

school_text == <<"A", " ", "s", "c", "h", "o", "o", "l", " ", "w", "i", "t", "h", " ", "s", "t", "u", "d", "e", "n", "t", "s", ",", " ", "t", "e", "a", "c", "h", "e", "r", "s", " ", "a", "n", "d", " ", "c", "l", "a", "s", "s", "e", "s", ".", " ", "S", "t", "u", "d", "e", "n", "t", "s", " ", "e", "n", "r", "o", "l", "l", " ", "i", "n", " ", "c", "l", "a", "s", "s", "e", "s", ".">>

\* the school text was generated by the rules
school_fallback ==
    /\ pc = "applied" /\ fn = "generate_schema" /\ arg.input_text = school_text
    /\ ~ret.raised /\ ret.path = "fallback"

school_result_expected ==
    /\ \A entity \in {<<"S", "t", "u", "d", "e", "n", "t">>, <<"T", "e", "a", "c", "h", "e", "r">>, <<"C", "l", "a", "s", "s">>, <<"S", "c", "h", "o", "o", "l">>} :
           Str(entity) \in Range(ret.out["entities"].l)
    /\ <<"S", "t", "u", "d", "e", "n", "t", " ", "e", "n", "r", "o", "l", "l", "s", " ", "i", "n", " ", "C", "l", "a", "s", "s">> \in DOMAIN ret.out["relationships"].f
    /\ ret.out["decisions"].f[<<"S", "t", "u", "d", "e", "n", "t", " ", "e", "n", "r", "o", "l", "l", "s", " ", "i", "n", " ", "C", "l", "a", "s", "s">>] = Str(Lit_reference)
    /\ ~detect_temporal_data(<<"S", "t", "u", "d", "e", "n", "t", " ", "e", "n", "r", "o", "l", "l", "s", " ", "i", "n", " ", "C", "l", "a", "s", "s">>)

\* C22: on the fallback path generate_schema of the school text returns the
\* entities Student, Teacher, Class and School, the relationship "Student
\* enrolls in Class" and the decision reference for it, the label being
\* non-temporal and the cardinality many_to_many (the text holds the hint
\* "student").
C22_school_scenario ==
    school_fallback =>
        /\ school_result_expected
        /\ detect_cardinality(arg.input_text, <<"S", "t", "u", "d", "e", "n", "t", " ", "e", "n", "r", "o", "l", "l", "s", " ", "i", "n", " ", "C", "l", "a", "s", "s">>) = "many_to_many"

\* C22 as stated: the same with cardinality one_to_many
C22_school_scenario_one_to_many ==
    school_fallback =>
        /\ school_result_expected
        /\ detect_cardinality(arg.input_text, <<"S", "t", "u", "d", "e", "n", "t", " ", "e", "n", "r", "o", "l", "l", "s", " ", "i", "n", " ", "C", "l", "a", "s", "s">>) = "one_to_many"

C22_school_generated_by_rules ==
    /\ school_fallback
    /\ ret.out["relationships"].f[<<"S", "t", "u", "d", "e", "n", "t", " ", "e", "n", "r", "o", "l", "l", "s", " ", "i", "n", " ", "C", "l", "a", "s", "s">>] = Str(Lit_reference)
    /\ arg.response = Raises(<<"C", "o", "n", "n", "e", "c", "t", "i", "o", "n", " ", "e", "r", "r", "o", "r", ".">>)

\* C23: in every schema generate_schema returns, relationships is a top-level
\* mapping and decisions holds no key "relationships", whatever shape the
\* relationships of the response had.
C23_relationships_top_level ==
    (pc = "applied" /\ fn = "generate_schema" /\ ~ret.raised) =>
        /\ ret.out["relationships"].k = "dict"
        /\ ret.out["decisions"].k = "dict" => Lit_relationships \notin DOMAIN ret.out["decisions"].f

\* the fields of the collection an index specification names, {} when the
\* schema has no such collection
indexed_fields(schema, index) ==
    IF index.f[Lit_collection].s \in DOMAIN schema.f
    THEN DOMAIN schema.f[index.f[Lit_collection].s].f
    ELSE {}

\* C27: every index specification produced on the fallback generation path
\* names a collection of the returned schema and a field of that collection.
C27_indexes_name_schema_fields ==
    (pc = "applied" /\ fn = "generate_schema" /\ ~ret.raised /\ ret.path = "fallback") =>
        \A i \in DOMAIN ret.out["indexes"].l :
            ret.out["indexes"].l[i].f[<<"f", "i", "e", "l", "d">>].s
                \in indexed_fields(ret.out["schema"], ret.out["indexes"].l[i])

\* the verb phrase of a relation label, in lower case
verb_phrase(relation) ==
    str_lower(str_join(<<" ">>, SubSeq(str_split(relation), 2, Len(str_split(relation)) - 1)))

\* the class of a verb phrase: it contains a possession word, else a
\* subordination word, else neither
verb_class(verb) ==
    IF \E word \in {<<"h", "a", "s">>, <<"c", "o", "n", "t", "a", "i", "n", "s">>, <<"i", "n", "c", "l", "u", "d", "e", "s">>, <<"e", "n", "r", "o", "l", "l", "s">>, <<"b", "o", "r", "r", "o", "w", "s">>, <<"t", "a", "k", "e", "s">>, <<"p", "a", "y", "s">>, <<"r", "e", "c", "e", "i", "v", "e", "s">>} :
           str_in(word, verb)
    THEN "possession"
    ELSE IF \E word \in {<<"b", "e", "l", "o", "n", "g", "s">>, <<"a", "s", "s", "i", "g", "n", "e", "d">>, <<"r", "e", "p", "o", "r", "t", "s">>, <<"g", "u", "a", "r", "d", "i", "a", "n", "s">>} : str_in(word, verb)
    THEN "subordination"
    ELSE "other"

\* the class of a verb phrase by the words the claim lists
listed_verb_class(verb) ==
    IF Range(str_split(verb)) \cap {<<"h", "a", "s">>, <<"c", "o", "n", "t", "a", "i", "n", "s">>, <<"e", "n", "r", "o", "l", "l", "s">>, <<"b", "o", "r", "r", "o", "w", "s">>, <<"t", "a", "k", "e", "s">>, <<"p", "a", "y", "s">>, <<"r", "e", "c", "e", "i", "v", "e", "s">>} # {}
    THEN "possession"
    ELSE IF Range(str_split(verb)) \cap {<<"b", "e", "l", "o", "n", "g", "s">>, <<"a", "s", "s", "i", "g", "n", "e", "d">>, <<"r", "e", "p", "o", "r", "t", "s">>, <<"g", "u", "a", "r", "d", "i", "a", "n", "s">>} # {}
    THEN "subordination"
    ELSE "other"

\* the collections of the entities with the fields of their templates only
templates_only(entities) == _schema(entities, <<>>, Dict(EmptyMap)).schema

\* where a relation of the given class is to be placed in the collections
placed_by_class(collections, relation, choice, class) ==
    LET parts == str_split(relation)
        subject == parts[1]
        object == parts[Len(parts)]
    IN  IF _collection_name(subject) \notin DOMAIN collections
           \/ _collection_name(object) \notin DOMAIN collections
        THEN collections
        ELSE IF choice = Lit_embed
        THEN IF class = "subordination"
             THEN SetField(collections, _collection_name(subject), str_lower(object), id_only)
             ELSE SetField(collections, _collection_name(subject), _pluralize(str_lower(object)),
                           List(<<id_only>>))
        ELSE IF class = "possession"
             THEN SetField(collections, _collection_name(subject), str_lower(object) \o Lit_Ids,
                           List(<<ObjectIdT>>))
        ELSE IF class = "subordination"
             THEN SetField(collections, _collection_name(subject), str_lower(object) \o Lit_Id, ObjectIdT)
        ELSE SetField(collections, _collection_name(object), str_lower(subject) \o Lit_Id, ObjectIdT)

\* C21: the rule-based generator places the field of a relation by the class
\* of its verb phrase: one containing has, contains, includes, enrolls,
\* borrows, takes, pays or receives is a possession (embed: array of the
\* pluralized object with an identity sub-field, reference: <object>Ids, both
\* on the subject's collection); otherwise one containing belongs, assigned,
\* reports or guardians is a subordination (embed: singular object field,
\* reference: <object>Id, on the subject's collection); any other verb embeds
\* as a possession and references by <subject>Id on the object's collection;
\* a relation with an absent collection changes nothing. This holds for every
\* relation but "User places Order" and "Order contains Product", which
\* _schema places itself.
C21_fields_placed_by_verb_class ==
    (pc = "applied" /\ fn = "_schema"
     /\ arg.relation \notin {<<"U", "s", "e", "r", " ", "p", "l", "a", "c", "e", "s", " ", "O", "r", "d", "e", "r">>, <<"O", "r", "d", "e", "r", " ", "c", "o", "n", "t", "a", "i", "n", "s", " ", "P", "r", "o", "d", "u", "c", "t">>}) =>
        /\ ret.ok
        /\ ret.schema = placed_by_class(templates_only(arg.entities), arg.relation, arg.choice,
                                        verb_class(verb_phrase(arg.relation)))

\* C21 as stated: the possession words are has, contains, enrolls, borrows,
\* takes, pays and receives, and every relation is placed by its class
C21_fields_placed_by_listed_verbs ==
    (pc = "applied" /\ fn = "_schema") =>
        /\ ret.ok
        /\ ret.schema = placed_by_class(templates_only(arg.entities), arg.relation, arg.choice,
                                        listed_verb_class(verb_phrase(arg.relation)))

C21_includes_is_possession ==
    /\ pc = "applied" /\ fn = "_schema" /\ ret.ok
    /\ arg.relation = <<"L", "i", "b", "r", "a", "r", "y", " ", "i", "n", "c", "l", "u", "d", "e", "s", " ", "B", "o", "o", "k">> /\ arg.choice = Lit_reference
    /\ arg.entities = <<<<"L", "i", "b", "r", "a", "r", "y">>, <<"B", "o", "o", "k">>>>
    /\ <<"b", "o", "o", "k", "I", "d", "s">> \in DOMAIN ret.schema[<<"l", "i", "b", "r", "a", "r", "i", "e", "s">>].f
    /\ <<"l", "i", "b", "r", "a", "r", "y", "I", "d">> \notin DOMAIN ret.schema[<<"b", "o", "o", "k", "s">>].f

position_of(collection, id) ==
    IF \E i \in DOMAIN collection : Str(py_str(collection[i]._id)) = id
    THEN CHOOSE i \in DOMAIN collection : Str(py_str(collection[i]._id)) = id
    ELSE 0

\* the position of the first document of the refinement chain of document i
RECURSIVE chain_root(_, _)
chain_root(collection, i) ==
    IF collection[i].parentId = None \/ position_of(collection, collection[i].parentId) = 0 THEN i
    ELSE chain_root(collection, position_of(collection, collection[i].parentId))

\* C24: once every request of /schemas/generate and /schemas/refine has been
\* answered, a generated document has version 1 and its own identifier as
\* rootId; a refined document has the identifier of its parent as parentId,
\* the version of the parent plus one and the rootId of the parent; every
\* document carries the identifier of the first document of its chain as
\* rootId, and its version is the schemaVersion of its result.
C24_lineage_of_stored_documents ==
    handlers = {} =>
        \A i \in DOMAIN schemaHistory :
            With([doc \in {schemaHistory[i]} |->
                /\ doc.by = "create_schema" =>
                      /\ doc.version = Num(1)
                      /\ doc.parentId = None
                      /\ doc.rootId = Str(py_str(doc._id))
                /\ doc.by = "refine_schema" =>
                      /\ position_of(schemaHistory, doc.parentId) # 0
                      /\ With([parent \in {schemaHistory[position_of(schemaHistory, doc.parentId)]} |->
                            /\ doc.version = Num(parent.version.n + 1)
                            /\ doc.rootId = parent.rootId])
                /\ doc.rootId = Str(py_str(schemaHistory[chain_root(schemaHistory, i)]._id))
                /\ doc.version = doc.result["schemaVersion"]])

\* a schema refined twice: a chain of three documents, every request answered
C24_chain_of_three ==
    /\ handlers = {}
    /\ Len(schemaHistory) = 3
    /\ schemaHistory[2].parentId = Str(py_str(schemaHistory[1]._id))
    /\ schemaHistory[3].parentId = Str(py_str(schemaHistory[2]._id))
    /\ schemaHistory[3].by = "refine_schema"


\* the last entries of a sequence, at most count of them
most_recent(entries, count) ==
    IF Len(entries) > count THEN SubSeq(entries, Len(entries) - count + 1, Len(entries))
    ELSE entries

\* the agents a step constructed or changed
touched_agents ==
    {i \in DOMAIN agents' : i \notin DOMAIN agents \/ agents'[i] # agents[i]}

\* C26: the history of every agent holds at most MAX_HISTORY entries, the
\* most recent ones appended and in the order appended; the registry gives a
\* user the same agent from request to request until delete_agent, the agent
\* made for a user after that holds the messages of its own calls only, and
\* a chat request changes the agent of its own user and no other.
C26_history_bounded_and_private ==
    /\ [](\A i \in DOMAIN agents :
             /\ Len(agents[i].history) <= MAX_HISTORY
             /\ agents[i].history = most_recent(agents[i].appended, MAX_HISTORY))
    /\ [](\A user \in DOMAIN _user_agents :
             /\ _user_agents[user] \in DOMAIN agents
             /\ agents[_user_agents[user]].user_id = user)
    /\ [][ /\ \A user \in DOMAIN _user_agents \cap DOMAIN _user_agents' :
                 _user_agents'[user] = _user_agents[user]
           /\ \A user \in DOMAIN _user_agents' \ DOMAIN _user_agents :
                 /\ _user_agents'[user] = Len(agents) + 1
                 /\ agents'[_user_agents'[user]].appended[1].role = "user"
                 /\ Cardinality({k \in DOMAIN agents'[_user_agents'[user]].appended :
                                    agents'[_user_agents'[user]].appended[k].role = "user"}) = 1
           /\ \A i \in DOMAIN agents : agents'[i].user_id = agents[i].user_id
           /\ IF served' = served THEN touched_agents = {}
              ELSE \A i \in touched_agents :
                      /\ agents'[i].user_id = served'[Len(served')]
                      /\ _user_agents'[served'[Len(served')]] = i ]_vars

\* an agent whose history was trimmed: more than MAX_HISTORY entries were
\* appended to it over two calls of chat
C26_history_trimmed ==
    \E i \in DOMAIN agents :
        /\ Len(agents[i].appended) > MAX_HISTORY
        /\ Len(agents[i].history) = MAX_HISTORY
        /\ Len(served) = 2


\* C28: a document made from a stored document belongs to the user the
\* stored document belongs to: no user derives a version from the schema of
\* another user, by /schemas/refine or by /agent/chat with a schema_id.
C28_child_made_by_owner_of_parent ==
    \A i \in DOMAIN schemaHistory :
        (/\ schemaHistory[i].parentId # None
         /\ position_of(schemaHistory, schemaHistory[i].parentId) # 0)
        => schemaHistory[i].userId =
              schemaHistory[position_of(schemaHistory, schemaHistory[i].parentId)].userId

====
